---- MODULE Spec2Model ----
(***************************************************************************)
(* A model of pylutron-caseta's LEAP session engine.                       *)
(*                                                                         *)
(* The program runs on one asyncio event loop.  A step of the model is one *)
(* of: an external event (the bridge delivers a frame, a timer fires, the  *)
(* application calls a public method), or the event loop running the       *)
(* handle at the head of its FIFO ready queue (a task resumed from its     *)
(* await up to its next await, or a future's done-callback).  A future     *)
(* that completes does not run its callbacks: it appends them to `ready`,  *)
(* in the order they were added (Future.__schedule_callbacks).             *)
(* asyncio.wait_for awaits the coroutine in the calling task (CPython      *)
(* 3.12 and later), so cancelling the task or its timeout cancels the      *)
(* request's future at once.                                               *)
(***************************************************************************)
EXTENDS Integers, Sequences, FiniteSets, TLC

\* ------------------------------------------------------------------ bounds
NClients == 2
MaxFrames == 2
MaxUnsolicited == 2
MaxSessions == 2
MaxSessionFrames == 3
MaxTags == 4
MaxSubscribers == 2
MaxEvents == 2
MaxRegistrations == 2

\* ------------------------------------------------------------- vocabulary
NoTag == 0
NoCode == -1

\* The tasks: the one in run(), and the callers of request() and subscribe()
RunTask == 0
Clients == 1..NClients
NoTask == -1

\* Smartbridge's tasks: _monitor_task is the one that runs LeapProtocol.run()
\* (RunTask); _login_task, _ping_task, and a task of the application that
\* awaits one of the facade's requests
LoginTask == -2
PingTask == -3
UserTask == -4
BridgeTasks == {LoginTask, PingTask, UserTask}
AllTasks == Clients \cup BridgeTasks

\* Callbacks handed to subscribe() and handlers handed to
\* subscribe_unsolicited().  The ones in Raising raise when called.
NoCb == "nocb"
Callbacks == {"cb", "cb_raises", "handler"}
Handlers == {"h1", "h_raises"}
Raising == {"cb_raises", "h_raises"}

\* A LEAP status header is text; it is kept as its space-separated words.
StatusOK == <<"200", "OK">>
StatusNotFound == <<"404", "Not", "Found">>
NoStatus == <<>>
Statuses == {StatusOK, StatusNotFound}
StatusCreated == <<"201", "Created">>

\* What the bridge holds.  A Caseta bridge: two dimmers or covers with a
\* zone, a Pico remote with two buttons, two occupancy groups with sensors.
\* A RadioRA 3 processor: the processor itself, a keypad with one button and
\* its LED, one zone.  "l2" and "gx" are ids no bridge holds.
NoId == "None"
DeviceOrder == <<"d1", "d2", "p1", "1", "k1", "z9">>
DeviceIds == {"d1", "d2", "p1", "1", "k1", "z9"}
ButtonIds == {"b1", "b2", "kb1"}
LedIds == {"l1", "l2"}
GroupIds == {"g1", "g2", "gx", "a1"}
ZoneOf ==
    [d \in DeviceIds |->
        CASE d = "d1" -> "z1"
          [] d = "d2" -> "z2"
          [] d = "1" -> "1"
          [] d = "z9" -> "z9"
          [] OTHER -> NoId]
ZoneIds == {"z1", "z2", "1", "z9", "zx"}
Products == {"caseta", "ra3"}

\* Values of the cache: status.get("Level", -1), KEYPAD_LED_STATE_*,
\* BUTTON_STATUS_*, OCCUPANCY_GROUP_UNKNOWN
NoLevel == -1
NoTilt == -1
LedUnknown == -1
LedOn == 100
LedOff == 0
Released == "Release"
Pressed == "Press"
Unknown == "Unknown"

\* The Body of a message, as one record for all its types
Body(type, id, level, fan_speed, tilt, event, entries) ==
    [type |-> type, id |-> id, level |-> level, fan_speed |-> fan_speed,
     tilt |-> tilt, event |-> event, entries |-> entries]

NoBody == Body("None", NoId, NoLevel, "None", NoTilt, "None", <<>>)

\* The button_groups of a keypad that has no button
Buttonless == "NoButton"

\* An entry of self.devices
Device(zone, level, fan_speed, tilt, button, led) ==
    [present |-> TRUE, zone |-> zone, current_state |-> level,
     fan_speed |-> fan_speed, tilt |-> tilt, button |-> button, led |-> led]

NoDevice ==
    [present |-> FALSE, zone |-> NoId, current_state |-> NoLevel,
     fan_speed |-> "None", tilt |-> NoTilt, button |-> "None", led |-> LedUnknown]

\* A facade call of the application's task
Op(name, dev, val) == [name |-> name, dev |-> dev, val |-> val]

NoOp == Op("None", NoId, NoLevel)

VARIABLES
    in_flight,          \* LeapProtocol._in_flight_requests: the tags, in insertion order
    fut,                \* the state of the future created for each tag
    futval,             \* the Response a future was resolved with
    owner,              \* the task awaiting each future
    tagged_subs,        \* LeapProtocol._tagged_subscriptions: tag -> callback
    unsolicited_subs,   \* LeapProtocol._unsolicited_subs
    writer_closed,      \* the writer was closed
    sent,               \* tags of the frames written to the bridge
    buffer,             \* frames in the StreamReader, not yet read
    eof,                \* the StreamReader was fed EOF
    run_pc,             \* where the task running LeapProtocol.run() is
    ready,              \* the event loop's FIFO of handles
    pc,                 \* where each task is
    kind,               \* what each client task called: request or subscribe
    cb_of,              \* the callback a client passed to subscribe
    tagof,              \* the tag of the request a task is awaiting
    must_cancel,        \* Task._must_cancel
    outcome,            \* how the last call of a task ended
    next_tag,           \* number of tags made so far
    nframes,            \* number of frames delivered so far
    last,               \* what run() did with the last frame it read
    close_result,       \* how the last LeapProtocol.close() ended
    mon_pc,             \* where Smartbridge._monitor_task is
    mon_cancel,         \* _monitor_task.cancel() was called
    leap_set,           \* Smartbridge._leap is not None
    login_completed,    \* the state of the future Smartbridge._login_completed
    login_step,         \* how many requests of _login() were answered
    session,            \* number of connections made by _monitor_once
    subscribers,        \* Smartbridge._subscribers: the devices with a callback
    timed_out,          \* the wait_for around the task's request timed out
    devices,            \* Smartbridge.devices
    buttons,            \* Smartbridge.buttons: the press state of each Pico button
    ra3_button_map,     \* Smartbridge._ra3_button_map: button -> keypad device
    led_device_map,     \* Smartbridge._led_device_map: LED -> keypad device
    occupancy_groups,   \* Smartbridge.occupancy_groups: the status of each group
    sensors,            \* Smartbridge.occupancy_groups: the sensors of each group
    button_subscribers, \* Smartbridge._button_subscribers: the buttons with a callback
    occupancy_subscribers, \* Smartbridge._occupancy_subscribers
    raising,            \* the ids whose subscriber callback raises when called
    called,             \* the subscriber callbacks called for the last message handled
    product,            \* the ProductType the bridge answers to /project
    urls,               \* the requests made on this connection, in order: those of
                        \* _login, then tap_button's
    facade,             \* the facade call the application's task is in
    registered          \* the calls of add_*_subscriber made so far, in order

\* LeapProtocol's tables, the futures, the stream, the tasks
protoVars == <<in_flight, tagged_subs, writer_closed>>
futVars == <<fut, futval>>
streamVars == <<sent, buffer, eof, nframes>>
taskVars == <<pc, kind, cb_of, tagof, owner, outcome, next_tag>>
bridgeVars == <<mon_pc, mon_cancel, leap_set, login_completed, login_step, session,
                subscribers, timed_out>>
\* Smartbridge's model of the bridge, and its subscribers
cacheVars == <<devices, buttons, ra3_button_map, led_device_map, occupancy_groups, sensors,
               button_subscribers, occupancy_subscribers, raising, called,
               product, urls, facade, registered>>

vars == <<in_flight, fut, futval, owner, tagged_subs, unsolicited_subs,
          writer_closed, sent, buffer, eof, run_pc, ready, pc, kind, cb_of,
          tagof, must_cancel, outcome, next_tag, nframes, last, close_result,
          mon_pc, mon_cancel, leap_set, login_completed, login_step, session,
          subscribers, timed_out, devices, buttons, ra3_button_map,
          led_device_map, occupancy_groups, sensors, button_subscribers,
          occupancy_subscribers, raising, called, product, urls, facade,
          registered>>

\* The tags made so far on this connection: the n-th request has tag n, and
\* the tables of futures and subscriptions grow with them
Tags == 1..next_tag

\* A _make_tag that returns the string it returned to the call before
MakeTagOnce == IF next_tag = 0 THEN next_tag + 1 ELSE next_tag

\* _make_tag(): str(uuid.uuid4()), taken to be a value that no earlier call
\* returned; the n-th call on a connection gets n
MakeTag == next_tag + 1

\* ---------------------------------------------------------------- helpers
Range(s) == {s[i] : i \in 1..Len(s)}

\* dict.pop(key, None) on the keys, kept in insertion order
RECURSIVE Without(_, _)
Without(s, x) ==
    IF s = <<>> THEN <<>>
    ELSE IF Head(s) = x THEN Without(Tail(s), x)
    ELSE <<Head(s)>> \o Without(Tail(s), x)

\* list.remove(x): drops the first occurrence only
RECURSIVE RemoveFirst(_, _)
RemoveFirst(s, x) ==
    IF s = <<>> THEN <<>>
    ELSE IF Head(s) = x THEN Tail(s)
    ELSE <<Head(s)>> \o RemoveFirst(Tail(s), x)

Handle(k, who, tag) == [k |-> k, who |-> who, tag |-> tag]
WakeOf(t) == Handle("wake", t, NoTag)
CleanUpOf(tag) == Handle("clean_up", NoTask, tag)

\* ------------------------------------------------------------- messages.py
IntOf(word) ==
    CASE word = "200" -> 200
      [] word = "201" -> 201
      [] word = "404" -> 404
      [] OTHER -> NoCode

\* ResponseStatus.from_str: the code is the integer before the first space
StatusFromStr(data) ==
    IF Len(data) < 2
    THEN [code |-> NoCode, message |-> data]
    ELSE IF IntOf(data[1]) = NoCode
         THEN [code |-> NoCode, message |-> data]
         ELSE [code |-> IntOf(data[1]), message |-> Tail(data)]

NoneStatus == [code |-> NoCode, message |-> <<"None">>]

\* ResponseStatus.is_successful, with None for a header without StatusCode
IsSuccessful(status) ==
    /\ status # NoneStatus
    /\ status.code # NoCode
    /\ status.code >= 200
    /\ status.code < 300

\* Response.from_json: the ClientTag was popped before and is not part of it
FromJson(f) ==
    [StatusCode |-> IF f.status = NoStatus THEN NoneStatus ELSE StatusFromStr(f.status),
     CommuniqueType |-> f.ctype,
     MessageBodyType |-> f.mbt,
     Body |-> f.body]

NoResponse ==
    [StatusCode |-> NoneStatus, CommuniqueType |-> "None",
     MessageBodyType |-> "None", Body |-> NoBody]

\* A line of the stream: a message with its header fields and its Body
Message(fkind, tag, status, ctype, mbt, body) ==
    [kind |-> fkind, tag |-> tag, status |-> status, ctype |-> ctype,
     mbt |-> mbt, body |-> body]

\* A message without MessageBodyType and Body
Frame(fkind, tag, status, ctype) ==
    Message(fkind, tag, status, ctype, "None", NoBody)

NoFrame == Frame("none", NoTag, NoStatus, "None")
NoLast == [frame |-> NoFrame, route |-> "none", cbs |-> <<>>, notified |-> {}]

\* ------------------------------------------------- the state as one value
\* The part of the state that the protocol's synchronous methods change, as
\* a record, so that a method calling another composes.
St ==
    [in_flight |-> in_flight, fut |-> fut, futval |-> futval,
     tagged_subs |-> tagged_subs, writer_closed |-> writer_closed,
     ready |-> ready, must_cancel |-> must_cancel,
     close_result |-> close_result]

Commit(s) ==
    /\ in_flight' = s.in_flight
    /\ fut' = s.fut
    /\ futval' = s.futval
    /\ tagged_subs' = s.tagged_subs
    /\ writer_closed' = s.writer_closed
    /\ ready' = s.ready
    /\ must_cancel' = s.must_cancel
    /\ close_result' = s.close_result

\* Future.__schedule_callbacks of a request's future: clean_up was added
\* first (leap.py:64), the awaiting task's wakeup second (leap.py:71)
ScheduleCallbacks(s, tag) ==
    [s EXCEPT !.ready = @ \o <<CleanUpOf(tag), WakeOf(owner[tag])>>]

\* Future.cancel(): nothing when the future is done
FutureCancel(s, tag) ==
    IF s.fut[tag] = "pending"
    THEN ScheduleCallbacks([s EXCEPT !.fut[tag] = "cancelled"], tag)
    ELSE s

\* Task.cancel() of a task awaiting its request's future: the future is
\* cancelled, or, when it is done and the wakeup scheduled, the task is
\* marked and gets CancelledError when it resumes
TaskCancelAwaiting(s, t) ==
    IF s.fut[tagof[t]] = "pending"
    THEN FutureCancel(s, tagof[t])
    ELSE [s EXCEPT !.must_cancel[t] = TRUE]

\* ------------------------------------------------------ LeapProtocol.close
\* for request in self._in_flight_requests.values(): request.set_exception(..)
\* Future.set_exception raises InvalidStateError on a future that is done,
\* which ends close() before the tables are cleared.
RECURSIVE FailAll(_, _)
FailAll(s, i) ==
    IF i > Len(s.in_flight)
    THEN [s EXCEPT !.in_flight = <<>>,
                   !.tagged_subs = [t \in DOMAIN s.tagged_subs |-> NoCb],
                   !.close_result = "ok"]
    ELSE IF s.fut[s.in_flight[i]] = "pending"
         THEN FailAll(ScheduleCallbacks(
                          [s EXCEPT !.fut[s.in_flight[i]] = "exception"],
                          s.in_flight[i]),
                      i + 1)
         ELSE [s EXCEPT !.close_result = "InvalidStateError"]

LeapClose(s) == FailAll([s EXCEPT !.writer_closed = TRUE], 1)

\* -------------------------------------------------------------------- Init
Constructed ==
    /\ in_flight = <<>>
    /\ fut = <<>>
    /\ futval = <<>>
    /\ owner = <<>>
    /\ tagged_subs = <<>>
    /\ unsolicited_subs = <<"h1">>
    /\ writer_closed = FALSE
    /\ sent = {}
    /\ buffer = <<>>
    /\ eof = FALSE
    /\ run_pc = "new"
    /\ ready = <<>>
    /\ pc = [c \in AllTasks |-> "idle"]
    /\ kind = [c \in AllTasks |-> "request"]
    /\ cb_of = [c \in AllTasks |-> NoCb]
    /\ tagof = [c \in AllTasks |-> NoTag]
    /\ must_cancel = [c \in AllTasks |-> FALSE]
    /\ outcome = [c \in AllTasks |-> "none"]
    /\ next_tag = 0
    /\ nframes = 0
    /\ last = NoLast
    /\ close_result = "none"
    /\ mon_pc = "none"
    /\ mon_cancel = FALSE
    /\ leap_set = FALSE
    /\ login_completed = "pending"
    /\ login_step = 0
    /\ session = 0
    /\ subscribers = {}
    /\ timed_out = [c \in AllTasks |-> FALSE]
    /\ devices = [d \in DeviceIds |-> NoDevice]
    /\ buttons = [b \in ButtonIds |-> NoId]
    /\ ra3_button_map = [b \in ButtonIds |-> NoId]
    /\ led_device_map = [l \in LedIds |-> NoId]
    /\ occupancy_groups = [g \in GroupIds |-> NoId]
    /\ sensors = [g \in GroupIds |-> <<>>]
    /\ button_subscribers = {}
    /\ occupancy_subscribers = {}
    /\ raising = {}
    /\ called = <<>>
    /\ product = NoId
    /\ urls = <<>>
    /\ registered = <<>>

Init ==
    /\ Constructed
    /\ facade = NoOp

\* The event loop runs one handle at a time: nothing else happens while
\* run() is between two awaits.
LoopIdle ==
    /\ run_pc # "running"
    /\ ~(mon_pc = "session" /\ run_pc \in {"done", "failed", "raised"})

\* ------------------------------------------------- LeapProtocol.request
\* request() up to `await future`: a fresh tag, the table entry, the write.
\* subscribe() is request() plus the registration when the task resumes.
\* The clients are numbered in the order of their calls.
Call(c, k, cb) ==
    /\ LoopIdle
    /\ pc[c] = "idle"
    /\ c = next_tag + 1
    /\ next_tag' = next_tag + 1
    /\ in_flight' = Append(in_flight, MakeTag)
    /\ fut' = Append(fut, "pending")
    /\ futval' = Append(futval, NoResponse)
    /\ owner' = Append(owner, c)
    /\ tagged_subs' = Append(tagged_subs, NoCb)
    /\ sent' = IF writer_closed THEN sent ELSE sent \cup {MakeTag}
    /\ tagof' = [tagof EXCEPT ![c] = MakeTag]
    /\ pc' = [pc EXCEPT ![c] = "awaiting"]
    /\ kind' = [kind EXCEPT ![c] = k]
    /\ cb_of' = [cb_of EXCEPT ![c] = cb]
    /\ UNCHANGED <<cacheVars, bridgeVars, unsolicited_subs, writer_closed, buffer, eof,
                   nframes, run_pc, ready, must_cancel, outcome, last, close_result>>

CallRequest == \E c \in Clients : Call(c, "request", NoCb)

CallSubscribe == \E c \in Clients : Call(c, "subscribe", "cb")

\* The task awaiting a request is cancelled (by its owner, or by the timeout
\* of the wait_for around it).
Cancel ==
    \E c \in Clients :
        /\ LoopIdle
        /\ pc[c] = "awaiting"
        /\ ~must_cancel[c]
        /\ Commit(TaskCancelAwaiting(St, c))
        /\ UNCHANGED <<cacheVars, bridgeVars, taskVars, streamVars, unsolicited_subs, run_pc, last>>

\* clean_up, the done-callback of a request's future (leap.py:60-62)
CleanUp ==
    /\ LoopIdle
    /\ ready # <<>>
    /\ Head(ready).k = "clean_up"
    /\ ready' = Tail(ready)
    /\ in_flight' = IF fut[Head(ready).tag] = "cancelled"
                    THEN Without(in_flight, Head(ready).tag)
                    ELSE in_flight
    /\ UNCHANGED <<cacheVars, bridgeVars, taskVars, streamVars, futVars, tagged_subs, writer_closed,
                   unsolicited_subs, run_pc, must_cancel, last, close_result>>

\* How `await future` ends for task t
Awaited(t) ==
    IF must_cancel[t] \/ fut[tagof[t]] = "cancelled" THEN "cancelled"
    ELSE IF fut[tagof[t]] = "exception" THEN "disconnected"
    ELSE "response"

\* A subscribe() that registers the callback whatever the status
RegisteredAnyStatus(subs, c) ==
    IF kind[c] = "subscribe" /\ Awaited(c) = "response"
    THEN [subs EXCEPT ![tagof[c]] = cb_of[c]]
    ELSE subs

\* subscribe() after its request returned (leap.py:142-145)
Registered(subs, c) ==
    IF /\ kind[c] = "subscribe"
       /\ Awaited(c) = "response"
       /\ IsSuccessful(futval[tagof[c]].StatusCode)
    THEN [subs EXCEPT ![tagof[c]] = cb_of[c]]
    ELSE subs

\* The task resumes from `await future`: the finally of request() drops the
\* entry, and subscribe() registers the callback on a successful status.
\* The call returns, and its locals and the future's result go with it.
Resume ==
    \E c \in Clients :
        /\ LoopIdle
        /\ ready # <<>>
        /\ Head(ready) = WakeOf(c)
        /\ pc[c] = "awaiting"
        /\ ready' = Tail(ready)
        /\ in_flight' = Without(in_flight, tagof[c])
        /\ tagged_subs' = Registered(tagged_subs, c)
        /\ outcome' = [outcome EXCEPT ![c] = Awaited(c)]
        /\ pc' = [pc EXCEPT ![c] = "done"]
        /\ must_cancel' = [must_cancel EXCEPT ![c] = FALSE]
        /\ kind' = [kind EXCEPT ![c] = "request"]
        /\ cb_of' = [cb_of EXCEPT ![c] = NoCb]
        /\ futval' = [futval EXCEPT ![tagof[c]] = NoResponse]
        /\ UNCHANGED <<cacheVars, bridgeVars, fut, streamVars, tagof, owner, next_tag,
                       writer_closed, unsolicited_subs, run_pc, last, close_result>>

\* --------------------------------------- subscribe/unsubscribe_unsolicited
SubscribeUnsolicited ==
    \E h \in Handlers :
        /\ LoopIdle
        /\ Len(unsolicited_subs) < MaxUnsolicited
        /\ unsolicited_subs' = Append(unsolicited_subs, h)
        /\ UNCHANGED <<cacheVars, bridgeVars, protoVars, futVars, streamVars, taskVars, run_pc, ready,
                       must_cancel, last, close_result>>

UnsubscribeUnsolicited ==
    \E h \in Range(unsolicited_subs) :
        /\ LoopIdle
        /\ unsolicited_subs' = RemoveFirst(unsolicited_subs, h)
        /\ UNCHANGED <<cacheVars, bridgeVars, protoVars, futVars, streamVars, taskVars, run_pc, ready,
                       must_cancel, last, close_result>>

\* ----------------------------------------------------------- the bridge
\* Data for the StreamReader: it wakes run() when run() waits in readline().
Fed(rpc) == IF rpc = "waiting" THEN "woken" ELSE rpc

FedReady(rpc, rdy) == IF rpc = "waiting" THEN Append(rdy, WakeOf(RunTask)) ELSE rdy

FrameLimit == IF mon_pc = "none" THEN MaxFrames ELSE MaxSessionFrames

FeedData(f) ==
    /\ LoopIdle
    /\ mon_pc \in {"none", "session"}
    /\ ~eof
    /\ ~writer_closed
    /\ nframes < FrameLimit
    /\ nframes' = nframes + 1
    /\ buffer' = Append(buffer, f)
    /\ run_pc' = Fed(run_pc)
    /\ ready' = FedReady(run_pc, ready)
    /\ UNCHANGED <<cacheVars, bridgeVars, protoVars, futVars, taskVars, sent, eof, unsolicited_subs,
                   must_cancel, last, close_result>>

\* The bridge sends a frame with a tag it was sent: the answer to a request,
\* or an event of a subscription.  Only subscribe() looks at the status of an
\* answer (leap.py:135), so the unsuccessful ones go to subscribe requests.
Deliver ==
    \E tag \in sent, st \in Statuses :
        /\ (st # StatusOK) => (kind[owner[tag]] = "subscribe")
        /\ FeedData(Frame("dict", tag, st, "ReadResponse"))

\* The bridge sends a frame with a tag it was sent and any status header:
\* 200, 201, 404, or none at all
DeliverStatus ==
    \E tag \in sent, st \in Statuses \cup {StatusCreated, NoStatus} :
        FeedData(Frame("dict", tag, st, "SubscribeResponse"))

\* The bridge answers a request it was sent
Respond ==
    \E tag \in sent :
        FeedData(Frame("dict", tag, StatusOK, "ReadResponse"))

\* Untagged traffic, and lines that are not a JSON object or not JSON at all
DeliverUntagged ==
    \E fkind \in {"dict", "garbage", "nondict"} :
        FeedData(Frame(fkind, NoTag, IF fkind = "dict" THEN StatusOK ELSE NoStatus,
                       "ReadResponse"))

\* The bridge of a session answers a request once, and sends events for a
\* subscription it has accepted
Buffered(tag) == \E i \in 1..Len(buffer) : buffer[i].tag = tag

BridgeAnswers ==
    \E tag \in sent, st \in Statuses :
        /\ mon_pc = "session"
        /\ (st # StatusOK) => (kind[owner[tag]] = "subscribe")
        /\ fut[tag] = "pending"
        /\ ~Buffered(tag)
        /\ FeedData(Frame("dict", tag, st, "ReadResponse"))

BridgeEvent ==
    \E tag \in sent :
        /\ mon_pc = "session"
        /\ \/ tagged_subs[tag] # NoCb
           \/ /\ kind[owner[tag]] = "subscribe"
              /\ tagof[owner[tag]] = tag
              /\ pc[owner[tag]] = "awaiting"
              /\ \/ fut[tag] = "result" /\ IsSuccessful(futval[tag].StatusCode)
                 \/ \E i \in 1..Len(buffer) :
                        buffer[i].tag = tag /\ buffer[i].status = StatusOK
        /\ FeedData(Frame("dict", tag, StatusOK, "ReadResponse"))

\* A line that is not JSON
DeliverGarbage ==
    /\ mon_pc = "session"
    /\ FeedData(Frame("garbage", NoTag, NoStatus, "None"))

\* The Body of the bridge's answer to a request of the login: the state of
\* the button, LED, groups or zone asked for; the lists of the topology are
\* in Listed
AnswerBody(u) ==
    CASE u.path = "/button/{}/status/event" ->
             Body("ButtonStatus", u.id, NoLevel, "None", NoTilt, Released, <<>>)
      [] u.path = "/led/{}/status" ->
             Body("LEDStatus", u.id, NoLevel, "None", NoTilt, "Off", <<>>)
      [] u.path = "/occupancygroup/status" ->
             Body("OccupancyGroupStatuses", NoId, NoLevel, "None", NoTilt, "None",
                  <<[id |-> "g1", status |-> "Unoccupied"],
                    [id |-> "g2", status |-> "Occupied"]>>)
      [] u.path = "/zone/{}/status" ->
             Body("ZoneStatus", u.id, 0, "None", NoTilt, "None", <<>>)
      [] u.path \in {"/zone/status", "/area/status"} -> NoBody
      [] u.path = "/device/{}/buttongroup/expanded" ->
             Body("ButtonGroupsExpanded", u.id, NoLevel, "None", NoTilt, "None",
                  <<[id |-> "kb1", led |-> "l1"]>>)
      [] OTHER -> Body("Definitions", NoId, NoLevel, "None", NoTilt, "None", <<>>)

\* The bridge answers the request _login is waiting on, with its data or with
\* an error status.  Its answer to /project names its product type, the
\* same whenever it is asked.
LoginAnswered(st, p, body) ==
        /\ LoopIdle
        /\ mon_pc = "session"
        /\ ~eof
        /\ ~writer_closed
        /\ urls # <<>>
        /\ pc[LoginTask] = "awaiting"
        /\ tagof[LoginTask] \in sent
        /\ fut[tagof[LoginTask]] = "pending"
        /\ ~Buffered(tagof[LoginTask])
        /\ p = IF product # NoId THEN product
               ELSE IF urls[Len(urls)].path = "/project" /\ st = StatusOK THEN p
               ELSE "caseta"
        /\ product' = IF urls[Len(urls)].path = "/project" /\ st = StatusOK THEN p
                      ELSE product
        /\ nframes' = nframes + 1
        /\ buffer' = Append(buffer,
               Message("dict", tagof[LoginTask], st,
                       IF urls[Len(urls)].k = "subscribe" THEN "SubscribeResponse"
                       ELSE "ReadResponse",
                       IF urls[Len(urls)].path = "/zone/{}/status"
                       THEN "OneZoneStatus" ELSE "None",
                       IF st # StatusOK THEN NoBody
                       ELSE IF urls[Len(urls)].path = "/project"
                       THEN Body("OneProjectDefinition", p, NoLevel, "None", NoTilt,
                                 "None", <<>>)
                       ELSE body))
        /\ run_pc' = Fed(run_pc)
        /\ ready' = FedReady(run_pc, ready)
        /\ UNCHANGED <<devices, buttons, ra3_button_map, led_device_map,
                       occupancy_groups, sensors, button_subscribers, occupancy_subscribers,
                       raising, registered, called, urls, facade, bridgeVars, protoVars,
                       futVars, taskVars, sent, eof, unsolicited_subs, must_cancel,
                       last, close_result>>

\* The bridge answers with the topology it has
TopologyAnswers ==
    \E st \in Statuses, p \in Products :
        /\ urls # <<>>
        /\ LoginAnswered(st, p, AnswerBody(urls[Len(urls)]))

\* The keypad was reprogrammed: the bridge answers the read of its button
\* groups with a list of no group
KeypadAnswersBare ==
    /\ urls # <<>>
    /\ urls[Len(urls)].path = "/device/{}/buttongroup/expanded"
    /\ LoginAnswered(StatusOK, "ra3",
                     Body("ButtonGroupsExpanded", urls[Len(urls)].id, NoLevel, "None",
                          NoTilt, "None", <<>>))

FeedEof ==
    /\ LoopIdle
    /\ mon_pc \in {"none", "session"}
    /\ ~eof
    /\ eof' = TRUE
    /\ run_pc' = Fed(run_pc)
    /\ ready' = FedReady(run_pc, ready)
    /\ UNCHANGED <<cacheVars, bridgeVars, protoVars, futVars, taskVars, sent, buffer, nframes,
                   unsolicited_subs, must_cancel, last, close_result>>

\* The connection of a session is lost, or closed by the bridge
BridgeEof == mon_pc = "session" /\ FeedEof

\* ------------------------------------------- Smartbridge's event handlers
\* The part of the state the handlers change, as a record.  `called` lists
\* the subscriber callbacks called, `raised` says that the last one raised.
Cache ==
    [devices |-> devices, buttons |-> buttons,
     occupancy_groups |-> occupancy_groups, sensors |-> sensors,
     called |-> <<>>, raised |-> FALSE]

CommitCache(c) ==
    /\ devices' = c.devices
    /\ buttons' = c.buttons
    /\ occupancy_groups' = c.occupancy_groups
    /\ sensors' = c.sensors
    /\ called' = c.called

\* A subscriber's callback is called: it returns, or raises
Notify(c, table, id, arg) ==
    [c EXCEPT !.called = Append(@, [table |-> table, id |-> id, arg |-> arg]),
              !.raised = id \in raising]

\* get_device_by_zone_id: the first device of the dictionary with the zone
RECURSIVE DeviceByZoneFrom(_, _, _)
DeviceByZoneFrom(devs, zone, i) ==
    IF i > Len(DeviceOrder) THEN NoId
    ELSE IF devs[DeviceOrder[i]].present /\ devs[DeviceOrder[i]].zone = zone
         THEN DeviceOrder[i]
         ELSE DeviceByZoneFrom(devs, zone, i + 1)

GetDeviceByZoneId(devs, zone) == DeviceByZoneFrom(devs, zone, 1)

\* A handler that stores the Level it read, -1 for none, whatever it is
ZoneOverwritten(dev, status) ==
    [dev EXCEPT !.current_state = status.level,
                !.fan_speed = status.fan_speed,
                !.tilt = status.tilt]

\* _handle_zone_status: KeyError when no device has the zone
ZoneUpdated(dev, status) ==
    [dev EXCEPT !.current_state = IF status.level >= 0 THEN status.level ELSE @,
                !.fan_speed = status.fan_speed,
                !.tilt = status.tilt]

HandleZoneStatus(c, status) ==
    IF GetDeviceByZoneId(c.devices, status.id) = NoId
    THEN [c EXCEPT !.raised = TRUE]
    ELSE IF GetDeviceByZoneId(c.devices, status.id) \in subscribers
         THEN Notify([c EXCEPT !.devices[GetDeviceByZoneId(c.devices, status.id)] =
                                   ZoneUpdated(@, status)],
                     "device", GetDeviceByZoneId(c.devices, status.id), "None")
         ELSE [c EXCEPT !.devices[GetDeviceByZoneId(c.devices, status.id)] =
                            ZoneUpdated(@, status)]

HandleOneZoneStatus(c, response) ==
    IF response.Body = NoBody THEN c ELSE HandleZoneStatus(c, response.Body)

\* _handle_multi_zone_status: the loop over the statuses of the update; the
\* KeyError of one ends it
RECURSIVE ZonesFrom(_, _, _)
ZonesFrom(c, statuses, i) ==
    IF i > Len(statuses) \/ c.raised THEN c
    ELSE ZonesFrom(HandleZoneStatus(c, statuses[i]), statuses, i + 1)

HandleMultiZoneStatus(c, response) ==
    IF response.Body = NoBody THEN c
    ELSE ZonesFrom(c, response.Body.entries, 1)

\* _handle_button_status, the part for the buttons of self.buttons
PicoButtonStatus(c, b, event) ==
    IF c.buttons[b] = NoId THEN c
    ELSE IF b \in button_subscribers
         THEN Notify([c EXCEPT !.buttons[b] = event], "button", b, event)
         ELSE [c EXCEPT !.buttons[b] = event]

\* _handle_button_status, the part for the buttons of self._ra3_button_map
KeypadNotified(c, b) ==
    IF ra3_button_map[b] \in subscribers
    THEN Notify(c, "device", ra3_button_map[b], "None")
    ELSE c

Ra3ButtonStatus(c, b, event) ==
    IF ra3_button_map[b] = NoId THEN c
    ELSE IF KeypadNotified([c EXCEPT !.devices[ra3_button_map[b]].button = event],
                           b).raised
         THEN KeypadNotified([c EXCEPT !.devices[ra3_button_map[b]].button = event], b)
         ELSE IF b \in button_subscribers
              THEN Notify(KeypadNotified(
                              [c EXCEPT !.devices[ra3_button_map[b]].button = event], b),
                          "button", b, event)
              ELSE KeypadNotified(
                       [c EXCEPT !.devices[ra3_button_map[b]].button = event], b)

HandleButtonStatus(c, response) ==
    IF response.Body = NoBody THEN c
    ELSE IF PicoButtonStatus(c, response.Body.id, response.Body.event).raised
         THEN PicoButtonStatus(c, response.Body.id, response.Body.event)
         ELSE Ra3ButtonStatus(
                  PicoButtonStatus(c, response.Body.id, response.Body.event),
                  response.Body.id, response.Body.event)

\* A handler that calls the subscriber of the keypad the LED is on
HandleButtonLedStatusKeypad(c, response) ==
    IF response.Body = NoBody THEN c
    ELSE IF led_device_map[response.Body.id] = NoId THEN c
    ELSE IF ~c.devices[led_device_map[response.Body.id]].present THEN c
    ELSE IF led_device_map[response.Body.id] \in subscribers
         THEN Notify([c EXCEPT !.devices[led_device_map[response.Body.id]].led =
                                   IF response.Body.event = "On" THEN LedOn ELSE LedOff],
                     "device", led_device_map[response.Body.id], "None")
         ELSE [c EXCEPT !.devices[led_device_map[response.Body.id]].led =
                            IF response.Body.event = "On" THEN LedOn ELSE LedOff]

\* _handle_button_led_status: the subscriber it calls is the one registered
\* under the id of the LED (smartbridge.py:736-737)
HandleButtonLedStatus(c, response) ==
    IF response.Body = NoBody THEN c
    ELSE IF led_device_map[response.Body.id] = NoId THEN c
    ELSE IF ~c.devices[led_device_map[response.Body.id]].present THEN c
    ELSE IF response.Body.id \in subscribers
         THEN Notify([c EXCEPT !.devices[led_device_map[response.Body.id]].led =
                                   IF response.Body.event = "On" THEN LedOn ELSE LedOff],
                     "device", response.Body.id, "None")
         ELSE [c EXCEPT !.devices[led_device_map[response.Body.id]].led =
                            IF response.Body.event = "On" THEN LedOn ELSE LedOff]

\* _handle_occupancy_group_status: the loop over the entries of the update
OccupancyUpdated(c, entry) ==
    IF c.occupancy_groups[entry.id] = NoId THEN c
    ELSE IF entry.id \in occupancy_subscribers
         THEN Notify([c EXCEPT !.occupancy_groups[entry.id] = entry.status],
                     "occupancy", entry.id, "None")
         ELSE [c EXCEPT !.occupancy_groups[entry.id] = entry.status]

RECURSIVE OccupancyFrom(_, _, _)
OccupancyFrom(c, entries, i) ==
    IF i > Len(entries) \/ c.raised THEN c
    ELSE OccupancyFrom(OccupancyUpdated(c, entries[i]), entries, i + 1)

HandleOccupancyGroupStatus(c, response) ==
    IF response.Body = NoBody THEN c
    ELSE OccupancyFrom(c, response.Body.entries, 1)

\* _handle_unsolicited
HandleUnsolicited(c, response) ==
    IF response.CommuniqueType = "ReadResponse"
       /\ response.MessageBodyType = "OneZoneStatus"
    THEN HandleOneZoneStatus(c, response)
    ELSE IF response.CommuniqueType = "ReadResponse"
            /\ response.MessageBodyType = "OneLEDStatus"
    THEN HandleButtonLedStatus(c, response)
    ELSE c

\* A callback of LeapProtocol's tables is called with a Response
ApplyCallback(c, cb, response) ==
    CASE cb = "_handle_unsolicited" -> HandleUnsolicited(c, response)
      [] cb = "_handle_button_status" -> HandleButtonStatus(c, response)
      [] cb = "_handle_button_led_status" -> HandleButtonLedStatus(c, response)
      [] cb = "_handle_occupancy_group_status" ->
             HandleOccupancyGroupStatus(c, response)
      [] cb = "_handle_multi_zone_status" -> HandleMultiZoneStatus(c, response)
      [] /\ cb = "_handle_ra3_occupancy_group_status"
         /\ response.Body = NoBody -> c
      [] OTHER -> [c EXCEPT !.raised = cb \in Raising]

\* ------------------------------------------------------- LeapProtocol.run
\* The unsolicited handlers called for one frame: each in turn, an exception
\* of one is caught and logged (leap.py:108-114)
RECURSIVE NotifiedFrom(_, _)
NotifiedFrom(handlers, i) ==
    IF i > Len(handlers) THEN <<>>
    ELSE <<handlers[i]>> \o NotifiedFrom(handlers, i + 1)

\* The same loop without the try: it ends at the first handler that raises
RECURSIVE UncaughtFrom(_, _)
UncaughtFrom(handlers, i) ==
    IF i > Len(handlers) THEN <<>>
    ELSE IF handlers[i] \in Raising THEN <<handlers[i]>>
    ELSE <<handlers[i]>> \o UncaughtFrom(handlers, i + 1)

NotifiedUncaught(handlers) == UncaughtFrom(handlers, 1)

Notified(handlers) == NotifiedFrom(handlers, 1)

\* Routing without the `not in_flight.done()` test of leap.py:89
RouteAnyEntry(s, f) ==
    IF f.kind = "garbage" THEN "decode_error"
    ELSE IF f.kind # "dict" THEN "ignored"
    ELSE IF f.tag = NoTag THEN "unsolicited"
    ELSE IF f.tag \in Range(s.in_flight) THEN "resolved"
    ELSE IF s.tagged_subs[f.tag] # NoCb THEN "subscription"
    ELSE "unexpected"

\* Where run() sends a frame (leap.py:83-114)
Route(s, f) ==
    IF f.kind = "garbage" THEN "decode_error"
    ELSE IF f.kind # "dict" THEN "ignored"
    ELSE IF f.tag = NoTag THEN "unsolicited"
    ELSE IF f.tag \in Range(s.in_flight) /\ s.fut[f.tag] = "pending" THEN "resolved"
    ELSE IF s.tagged_subs[f.tag] # NoCb THEN "subscription"
    ELSE "unexpected"

\* The callbacks run() calls for a frame, in order
Called(s, f) ==
    CASE Route(s, f) = "unsolicited" -> Notified(unsolicited_subs)
      [] Route(s, f) = "subscription" -> <<s.tagged_subs[f.tag]>>
      [] OTHER -> <<>>

\* run() resolving the oldest entry of the table instead of the frame's
RoutedOldest(s, f) ==
    IF f.kind # "dict" \/ f.tag = NoTag THEN s
    ELSE IF Route(s, f) = "resolved"
         THEN ScheduleCallbacks(
                  [s EXCEPT !.in_flight = Tail(@),
                            !.fut[Head(s.in_flight)] = "result",
                            !.futval[Head(s.in_flight)] = FromJson(f)],
                  Head(s.in_flight))
         ELSE [s EXCEPT !.in_flight = Without(@, f.tag)]

\* The tables and futures after run() handled a frame
Routed(s, f) ==
    IF f.kind # "dict" \/ f.tag = NoTag THEN s
    ELSE IF Route(s, f) = "resolved"
         THEN ScheduleCallbacks(
                  [s EXCEPT !.in_flight = Without(@, f.tag),
                            !.fut[f.tag] = "result",
                            !.futval[f.tag] = FromJson(f)],
                  f.tag)
         ELSE [s EXCEPT !.in_flight = Without(@, f.tag)]

\* The unsolicited handlers are called in a try: what one did before it
\* raised stays, and the next one is called
RECURSIVE HandledFrom(_, _, _, _)
HandledFrom(c, cbs, response, i) ==
    IF i > Len(cbs) THEN c
    ELSE HandledFrom([ApplyCallback(c, cbs[i], response) EXCEPT !.raised = FALSE],
                     cbs, response, i + 1)

\* The cache after run() handled a frame
Handled(s, f) ==
    CASE Route(s, f) = "unsolicited" ->
             HandledFrom(Cache, Called(s, f), FromJson(f), 1)
      [] Route(s, f) = "subscription" ->
             ApplyCallback(Cache, s.tagged_subs[f.tag], FromJson(f))
      [] OTHER -> [Cache EXCEPT !.called = called]

\* An exception leaves run(): the JSON does not parse, or a tagged
\* subscription's callback raised (it is called outside any try)
RunRaises(s, f) ==
    \/ Route(s, f) = "decode_error"
    \/ Route(s, f) = "subscription" /\ Handled(s, f).raised

\* How a turn of the loop of run() ends: json.loads raises ValueError, which
\* _monitor_once catches; a callback raises what it raises
RunEnds(s, f) ==
    IF Route(s, f) = "decode_error" THEN "failed"
    ELSE IF RunRaises(s, f) THEN "raised"
    ELSE "running"

\* The subscribers the bridge's handlers call for an event: the callback of
\* the device the event is about, when there is one (smartbridge.py:617-618)
Notifies(cbs) == IF "handler" \in Range(cbs) THEN subscribers ELSE {}

StartRun ==
    /\ run_pc = "new"
    /\ run_pc' = "running"
    /\ UNCHANGED <<cacheVars, bridgeVars, protoVars, futVars, streamVars, taskVars, unsolicited_subs, ready,
                   must_cancel, last, close_result>>

WakeRun ==
    /\ run_pc = "woken"
    /\ ~mon_cancel
    /\ ready # <<>>
    /\ Head(ready) = WakeOf(RunTask)
    /\ ready' = Tail(ready)
    /\ run_pc' = "running"
    /\ UNCHANGED <<cacheVars, bridgeVars, protoVars, futVars, streamVars, taskVars, unsolicited_subs,
                   must_cancel, last, close_result>>

\* One turn of the loop with a line in the buffer: readline() returns at once
RunFrame ==
    /\ run_pc = "running"
    /\ buffer # <<>>
    /\ buffer' = Tail(buffer)
    /\ last' = [frame |-> Head(buffer), route |-> Route(St, Head(buffer)),
                cbs |-> Called(St, Head(buffer)),
                notified |-> Notifies(Called(St, Head(buffer)))]
    /\ Commit(Routed(St, Head(buffer)))
    /\ CommitCache(Handled(St, Head(buffer)))
    /\ run_pc' = RunEnds(St, Head(buffer))
    /\ UNCHANGED <<bridgeVars, taskVars, sent, eof, nframes, unsolicited_subs,
                   ra3_button_map, led_device_map, button_subscribers,
                   occupancy_subscribers, raising, registered, product, urls, facade>>

\* No line in the buffer: readline() waits, or returns b"" at EOF
RunWait ==
    /\ run_pc = "running"
    /\ buffer = <<>>
    /\ run_pc' = IF eof THEN "done" ELSE "waiting"
    /\ last' = NoLast
    /\ UNCHANGED <<cacheVars, bridgeVars, protoVars, futVars, streamVars, taskVars, unsolicited_subs, ready,
                   must_cancel, close_result>>

\* The application calls LeapProtocol.close()
Close ==
    /\ LoopIdle
    /\ Commit(LeapClose(St))
    /\ UNCHANGED <<cacheVars, bridgeVars, taskVars, streamVars, unsolicited_subs, run_pc, last>>

\* ------------------------------------------------------------ Smartbridge
\* The requests of _login(): a topology read, then a status subscription
LoginPlan == <<"request", "subscribe">>

\* Task.cancel() of one of the bridge's tasks.  must_cancel here also marks
\* a task whose future was cancelled by the call, so that a timeout of the
\* same request does not turn the CancelledError into a TimeoutError.
CancelTask(s, t) ==
    IF pc[t] = "awaiting"
    THEN [FutureCancel(s, tagof[t]) EXCEPT !.must_cancel[t] = TRUE]
    ELSE IF pc[t] = "created"
    THEN [s EXCEPT !.must_cancel[t] = TRUE]
    ELSE IF pc[t] = "sleeping" /\ ~s.must_cancel[t]
    THEN [s EXCEPT !.must_cancel[t] = TRUE, !.ready = Append(@, WakeOf(t))]
    ELSE s

\* The finally of _monitor_once (smartbridge.py:587-598)
Teardown(s) ==
    IF leap_set
    THEN LeapClose(CancelTask(CancelTask(s, LoginTask), PingTask))
    ELSE CancelTask(CancelTask(s, LoginTask), PingTask)

\* leap.close() raised in the finally: the exception leaves _monitor
TeardownRaises(s) ==
    leap_set /\ Teardown(s).close_result = "InvalidStateError"

\* A _request that returns whatever response it got
BridgeAwaitedUnchecked(t) ==
    IF must_cancel[t] THEN "cancelled"
    ELSE IF timed_out[t] THEN "timeout"
    ELSE IF fut[tagof[t]] = "exception" THEN "disconnected"
    ELSE "response"

\* How the wait_for around a request ends for a task of the bridge
BridgeAwaited(t) ==
    IF must_cancel[t] THEN "cancelled"
    ELSE IF timed_out[t] THEN "timeout"
    ELSE IF fut[tagof[t]] = "exception" THEN "disconnected"
    ELSE IF IsSuccessful(futval[tagof[t]].StatusCode) THEN "response"
    ELSE "error_response"

\* The finally of request(), when the task awaiting it resumes
Returned(s, t) ==
    [s EXCEPT !.in_flight = Without(@, tagof[t]),
              !.futval[tagof[t]] = NoResponse]

\* Tags left for the requests _login() has still to make
Reserved ==
    IF pc[LoginTask] = "created" THEN Len(LoginPlan)
    ELSE IF pc[LoginTask] = "awaiting" THEN Len(LoginPlan) - login_step - 1
    ELSE 0

\* Smartbridge.connect(), the first call: it starts _monitor
BridgeConnect ==
    /\ mon_pc = "none"
    /\ mon_pc' = "connecting"
    /\ UNCHANGED <<cacheVars, protoVars, futVars, streamVars, taskVars, unsolicited_subs, run_pc,
                   ready, must_cancel, last, close_result, mon_cancel, leap_set,
                   login_completed, login_step, session, subscribers, timed_out>>

\* A bridge that logs in on its first connection only
StartedOnce ==
    IF login_completed = "result" THEN {PingTask} ELSE {LoginTask, PingTask}

\* The tasks _monitor_once creates on a connection (smartbridge.py:570-571)
Started == {LoginTask, PingTask}

\* _monitor_once, from the connection made to the readline() of run(): a new
\* LeapProtocol, the login and ping tasks.  The handles of the session before
\* have run by then: they were queued before the connection was started.
ConnectOk ==
    /\ mon_pc = "connecting"
    /\ ~mon_cancel
    /\ ready = <<>>
    /\ session < MaxSessions
    /\ session' = session + 1
    /\ mon_pc' = "session"
    /\ leap_set' = TRUE
    /\ run_pc' = "waiting"
    /\ in_flight' = <<>>
    /\ fut' = <<>>
    /\ futval' = <<>>
    /\ owner' = <<>>
    /\ tagged_subs' = <<>>
    /\ writer_closed' = FALSE
    /\ close_result' = "none"
    /\ sent' = {}
    /\ buffer' = <<>>
    /\ eof' = FALSE
    /\ nframes' = 0
    /\ next_tag' = 0
    /\ login_step' = 0
    /\ ready' = SelectSeq(<<WakeOf(LoginTask), WakeOf(PingTask)>>,
                           LAMBDA h : h.who \in Started)
    /\ pc' = [t \in AllTasks |->
                 IF t \in Started THEN "created"
                 ELSE IF t \in BridgeTasks THEN "idle" ELSE pc[t]]
    /\ outcome' = [t \in AllTasks |-> IF t \in BridgeTasks THEN "none" ELSE outcome[t]]
    /\ tagof' = [t \in AllTasks |-> IF t \in BridgeTasks THEN NoTag ELSE tagof[t]]
    /\ must_cancel' = [t \in AllTasks |-> FALSE]
    /\ timed_out' = [t \in AllTasks |-> FALSE]
    /\ last' = NoLast
    /\ unsolicited_subs' = <<"_handle_unsolicited">>
    /\ urls' = <<>>
    /\ UNCHANGED <<devices, buttons, ra3_button_map, led_device_map, occupancy_groups, sensors,
                   button_subscribers, occupancy_subscribers, raising, registered, called,
                   product, facade, kind, cb_of, mon_cancel, login_completed,
                   subscribers>>

\* The connector raises OSError: _monitor_once logs it and sleeps
ConnectFail ==
    /\ mon_pc = "connecting"
    /\ ~mon_cancel
    /\ mon_pc' = "backoff"
    /\ UNCHANGED <<cacheVars, protoVars, futVars, streamVars, taskVars, unsolicited_subs, run_pc,
                   ready, must_cancel, last, close_result, mon_cancel, leap_set,
                   login_completed, login_step, session, subscribers, timed_out>>

\* run() returned at EOF or raised the JSON error: _monitor_once sleeps
SessionEnded ==
    /\ mon_pc = "session"
    /\ run_pc \in {"done", "failed"}
    /\ mon_pc' = "backoff"
    /\ run_pc' = "new"
    /\ UNCHANGED <<cacheVars, protoVars, futVars, streamVars, taskVars, unsolicited_subs,
                   ready, must_cancel, last, close_result, mon_cancel, leap_set,
                   login_completed, login_step, session, subscribers, timed_out>>

\* The timer of asyncio.sleep(RECONNECT_DELAY) fires: the handles queued
\* when the sleep began have run long before
BackoffTimer ==
    /\ LoopIdle
    /\ ready = <<>>
    /\ mon_pc = "backoff"
    /\ ~mon_cancel
    /\ mon_pc' = "backoff_woken"
    /\ ready' = Append(ready, WakeOf(RunTask))
    /\ UNCHANGED <<cacheVars, protoVars, futVars, streamVars, taskVars, unsolicited_subs, run_pc,
                   must_cancel, last, close_result, mon_cancel, leap_set,
                   login_completed, login_step, session, subscribers, timed_out>>

\* _monitor resumes after the sleep, or with the CancelledError of close():
\* the finally of _monitor_once, then the next turn of the loop of _monitor,
\* or its end (smartbridge.py:541-554)
MonitorResume ==
    /\ LoopIdle
    /\ ready # <<>>
    /\ Head(ready) = WakeOf(RunTask)
    /\ mon_pc = "backoff_woken" \/ mon_cancel
    /\ Commit(Teardown([St EXCEPT !.ready = Tail(ready)]))
    /\ mon_pc' = IF TeardownRaises(St) THEN "failed"
                 ELSE IF mon_cancel THEN "done"
                 ELSE "connecting"
    /\ leap_set' = (leap_set /\ TeardownRaises(St))
    /\ login_completed' =
           IF login_completed # "pending" THEN login_completed
           ELSE IF TeardownRaises(St) THEN "exception"
           ELSE IF mon_cancel THEN "cancelled"
           ELSE login_completed
    /\ run_pc' = "new"
    /\ UNCHANGED <<cacheVars, streamVars, taskVars, unsolicited_subs, last, mon_cancel,
                   login_step, session, subscribers, timed_out>>

\* Smartbridge.close(): it cancels the monitor and the ping tasks
BridgeClose ==
    /\ LoopIdle
    /\ mon_pc \in {"connecting", "session", "backoff", "backoff_woken"}
    /\ ~mon_cancel
    /\ mon_cancel' = TRUE
    /\ Commit(CancelTask(
           [St EXCEPT !.ready =
               IF mon_pc = "backoff_woken" \/ (mon_pc = "session" /\ run_pc = "woken")
               THEN @ ELSE Append(@, WakeOf(RunTask))],
           PingTask))
    /\ run_pc' = IF mon_pc = "session" /\ run_pc = "waiting" THEN "cancelled" ELSE run_pc
    /\ UNCHANGED <<cacheVars, streamVars, taskVars, unsolicited_subs, last, mon_pc,
                   leap_set, login_completed, login_step, session, subscribers,
                   timed_out>>

\* A task of the bridge ends: its request, if any, leaves the table in the
\* finally of request() (leap.py:72-73)
TaskEnds(t, how, end) ==
    /\ pc' = [pc EXCEPT ![t] = end]
    /\ outcome' = [outcome EXCEPT ![t] = how]
    /\ must_cancel' = [must_cancel EXCEPT ![t] = FALSE]
    /\ in_flight' = IF pc[t] = "awaiting" THEN Without(in_flight, tagof[t]) ELSE in_flight
    /\ futval' = IF pc[t] = "awaiting" THEN [futval EXCEPT ![tagof[t]] = NoResponse]
                 ELSE futval
    /\ UNCHANGED <<fut, owner, sent, tagof, kind, cb_of, next_tag>>

\* A task of the bridge calls LeapProtocol.request or subscribe through
\* _request or _subscribe, after the request before it (if any) returned;
\* subs is the subscription table when it calls
TaskSends(t, k, cb, subs) ==
    /\ next_tag' = next_tag + 1
    /\ in_flight' = Append(IF pc[t] = "awaiting" THEN Without(in_flight, tagof[t])
                           ELSE in_flight,
                           MakeTag)
    /\ fut' = Append(fut, "pending")
    /\ futval' = Append(IF pc[t] = "awaiting"
                        THEN [futval EXCEPT ![tagof[t]] = NoResponse]
                        ELSE futval,
                        NoResponse)
    /\ owner' = Append(owner, t)
    /\ tagged_subs' = Append(subs, NoCb)
    /\ sent' = IF writer_closed THEN sent ELSE sent \cup {MakeTag}
    /\ tagof' = [tagof EXCEPT ![t] = MakeTag]
    /\ kind' = [kind EXCEPT ![t] = k]
    /\ cb_of' = [cb_of EXCEPT ![t] = cb]
    /\ pc' = [pc EXCEPT ![t] = "awaiting"]
    /\ UNCHANGED <<outcome, must_cancel>>

\* The head of the event loop's queue is the wakeup of task t
Woken(t) ==
    /\ LoopIdle
    /\ ready # <<>>
    /\ Head(ready) = WakeOf(t)
    /\ pc[t] \in {"created", "sleeping", "awaiting"}

\* _login, one step: from its start or from the answer to a request to the
\* next request, or to its end (smartbridge.py:816-866)
LoginStep ==
    /\ Woken(LoginTask)
    /\ ready' = Tail(ready)
    /\ IF must_cancel[LoginTask]
       THEN /\ TaskEnds(LoginTask, "cancelled", "done")
            /\ UNCHANGED <<cacheVars, tagged_subs, login_completed, login_step>>
       ELSE IF pc[LoginTask] = "created"
       THEN /\ TaskSends(LoginTask, LoginPlan[1], "handler", tagged_subs)
            /\ UNCHANGED <<cacheVars, login_completed, login_step>>
       ELSE IF \/ BridgeAwaited(LoginTask) \in {"timeout", "disconnected"}
               \/ /\ BridgeAwaited(LoginTask) = "error_response"
                  /\ kind[LoginTask] = "request"
       THEN /\ TaskEnds(LoginTask, BridgeAwaited(LoginTask), "failed")
            /\ login_completed' = IF login_completed = "pending" THEN "exception"
                                  ELSE login_completed
            /\ UNCHANGED <<cacheVars, tagged_subs, login_step>>
       ELSE /\ login_step' = login_step + 1
            /\ IF login_step + 1 < Len(LoginPlan)
               THEN /\ TaskSends(LoginTask, LoginPlan[login_step + 2], "handler",
                                 Registered(tagged_subs, LoginTask))
                    /\ UNCHANGED login_completed
               ELSE /\ TaskEnds(LoginTask, "finished", "done")
                    /\ tagged_subs' = Registered(tagged_subs, LoginTask)
                    /\ login_completed' = IF login_completed = "pending" THEN "result"
                                          ELSE login_completed
    /\ UNCHANGED <<cacheVars, writer_closed, close_result, buffer, eof, nframes, unsolicited_subs,
                   run_pc, last, mon_pc, mon_cancel, leap_set, session, subscribers,
                   timed_out>>

\* ------------------------------------------------- _login, request by request
\* A request of _login: its kind, its URL (the id in it apart), the callback
Req(k, path, id, cb) == [k |-> k, path |-> path, id |-> id, cb |-> cb]

Done == Req("None", "None", NoId, NoCb)

\* Iteration over a dictionary, in the order its keys were inserted: the
\* position of the first key of `keys` after position i, or 0
NextIn(order, keys, i) ==
    IF \E j \in (i + 1)..Len(order) : order[j] \in keys
    THEN CHOOSE j \in (i + 1)..Len(order) :
             /\ order[j] \in keys
             /\ \A k \in (i + 1)..(j - 1) : order[k] \notin keys
    ELSE 0

IndexOf(order, x) == CHOOSE j \in 1..Len(order) : order[j] = x

ButtonOrder == <<"b1", "b2", "kb1">>

\* `for device in self.devices.values(): if device.get("zone") is not None`
\* (smartbridge.py:852-858): the read for the next device with a zone
ZoneRead(c, i) ==
    IF NextIn(DeviceOrder, {d \in DeviceIds : c.devices[d].zone # NoId}, i) = 0
    THEN Done
    ELSE Req("request", "/zone/{}/status",
             c.devices[DeviceOrder[NextIn(DeviceOrder,
                 {d \in DeviceIds : c.devices[d].zone # NoId}, i)]].zone,
             NoCb)

\* A login that subscribes to no button
ZonesAtOnce(c, i) == ZoneRead(c, 0)

\* `for button in self.buttons` of _subscribe_to_button_status; a Caseta
\* login goes on to the zones after the last button
ButtonSubscribe(c, i) ==
    IF NextIn(ButtonOrder, {b \in ButtonIds : c.buttons[b] # NoId}, i) = 0
    THEN ZoneRead(c, 0)
    ELSE Req("subscribe", "/button/{}/status/event",
             ButtonOrder[NextIn(ButtonOrder,
                 {b \in ButtonIds : c.buttons[b] # NoId}, i)],
             "_handle_button_status")

DeviceWithZone(c, zone) == CHOOSE d \in DeviceIds : c.devices[d].zone = zone

\* The request _login makes after request u returned or raised a
\* BridgeResponseError that was caught (ok is FALSE), with cache c
After(u, c, ok, type) ==
    CASE u.path = "/area" -> Req("request", "/project", NoId, NoCb)
      [] u.path = "/project" ->
             IF type = "ra3"
             THEN Req("request", "/device?where=IsThisDevice:true", NoId, NoCb)
             ELSE Req("request", "/device", NoId, NoCb)
      \* the Caseta branch
      [] u.path = "/device" -> Req("request", "/button", NoId, NoCb)
      [] u.path = "/button" -> Req("request", "/server/2/id", NoId, NoCb)
      [] u.path = "/server/2/id" -> Req("request", "/virtualbutton", NoId, NoCb)
      [] u.path = "/virtualbutton" -> Req("request", "/occupancygroup", NoId, NoCb)
      [] u.path = "/occupancygroup" ->
             Req("subscribe", "/occupancygroup/status", NoId,
                 "_handle_occupancy_group_status")
      [] u.path = "/occupancygroup/status" -> ButtonSubscribe(c, 0)
      [] u.path = "/button/{}/status/event" /\ type = "caseta" ->
             IF ok THEN ButtonSubscribe(c, IndexOf(ButtonOrder, u.id))
             ELSE ZoneRead(c, 0)
      [] u.path = "/zone/{}/status" ->
             ZoneRead(c, IndexOf(DeviceOrder, DeviceWithZone(c, u.id)))
      \* the RadioRA 3 branch, for one area with one keypad
      [] u.path = "/device?where=IsThisDevice:true" ->
             Req("request", "/area/{}/associatedcontrolstation", "a1", NoCb)
      [] u.path = "/area/{}/associatedcontrolstation" ->
             Req("request", "/device/{}", "k1", NoCb)
      [] u.path = "/device/{}" ->
             Req("request", "/device/{}/buttongroup/expanded", "k1", NoCb)
      [] u.path = "/device/{}/buttongroup/expanded" ->
             IF c.devices[u.id].button = Buttonless
             THEN Req("request", "/area/{}/associatedzone", "a1", NoCb)
             ELSE Req("subscribe", "/button/{}/status/event", "kb1",
                      "_handle_button_status")
      [] u.path = "/button/{}/status/event" /\ type = "ra3" ->
             Req("subscribe", "/led/{}/status", "l1", "_handle_button_led_status")
      [] u.path = "/led/{}/status" ->
             Req("request", "/area/{}/associatedzone", "a1", NoCb)
      [] u.path = "/area/{}/associatedzone" ->
             Req("subscribe", "/zone/status", NoId, "_handle_multi_zone_status")
      [] u.path = "/zone/status" ->
             Req("request", "/device?where=IsThisDevice:false", NoId, NoCb)
      [] u.path = "/device?where=IsThisDevice:false" ->
             Req("subscribe", "/area/status", NoId,
                 "_handle_ra3_occupancy_group_status")
      [] OTHER -> Done

\* The requests whose BridgeResponseError _login's callees catch
Swallowed(u) == u.k = "subscribe" \/ u.path = "/server/2/id"

\* dict.setdefault(id, {...}).update(zone=...): a device that is already in
\* the dictionary keeps its state
DeviceLoaded(dev, zone) ==
    IF dev.present THEN [dev EXCEPT !.zone = zone]
    ELSE Device(zone, NoLevel, "None", NoTilt, "None", LedUnknown)

\* The ids the bridge lists in its answer to a request of the login
Listed(u) ==
    CASE u.path = "/device" -> {"d1", "d2", "p1"}
      [] u.path = "/button" -> {"b1", "b2"}
      [] u.path = "/occupancygroup" -> {"g1", "g2"}
      [] u.path = "/device?where=IsThisDevice:true" -> {"1"}
      [] u.path = "/device/{}/buttongroup/expanded" -> {"k1"}
      [] u.path = "/area/{}/associatedzone" -> {"z9"}
      [] OTHER -> {}

\* The occupancy sensors of area a1, as the bridge lists them among its
\* devices; _process_ra3_occupancy_group is called for each in turn: the
\* group of the area is made if it is not there, and the sensor appended
ListedSensors == <<"s1", "s2">>

\* The cache after request u returned `response`: what the _load_ function
\* stores, or what the handler does with the answer to the subscription or
\* to the zone read
Loaded(c, u, response) ==
    CASE u.path \in {"/device", "/device?where=IsThisDevice:true",
                     "/area/{}/associatedzone"} ->
             [c EXCEPT !.devices =
                 [d \in DeviceIds |->
                     IF d \in Listed(u) THEN DeviceLoaded(@[d], ZoneOf[d]) ELSE @[d]]]
      [] u.path = "/device/{}/buttongroup/expanded" ->
             [c EXCEPT !.devices[u.id] =
                 [DeviceLoaded(@, NoId) EXCEPT
                     !.button = IF response.Body.entries = <<>> THEN Buttonless
                                ELSE "None",
                     !.led = LedUnknown]]
      [] u.path = "/button" ->
             [c EXCEPT !.buttons =
                 [b \in ButtonIds |->
                     IF b \in Listed(u) /\ @[b] = NoId /\ c.devices["p1"].present
                     THEN Released ELSE @[b]]]
      [] u.path = "/occupancygroup" ->
             [c EXCEPT !.occupancy_groups =
                 [g \in GroupIds |->
                     IF g \in Listed(u) /\ @[g] = NoId THEN Unknown ELSE @[g]]]
      [] u.path = "/device?where=IsThisDevice:false" ->
             [c EXCEPT !.occupancy_groups["a1"] = IF @ = NoId THEN Unknown ELSE @,
                       !.sensors["a1"] = @ \o ListedSensors]
      [] u.k = "subscribe" -> ApplyCallback(c, u.cb, response)
      [] u.path = "/zone/{}/status" -> HandleOneZoneStatus(c, response)
      [] OTHER -> c

\* The cache when _login resumes from its last request
LoginCache ==
    IF BridgeAwaited(LoginTask) = "response"
    THEN Loaded(Cache, urls[Len(urls)], futval[tagof[LoginTask]])
    ELSE Cache

\* The request _login goes on with; the branch it is in is the one it took
\* on the ProductType of the answer to /project
Following ==
    After(urls[Len(urls)], LoginCache, BridgeAwaited(LoginTask) = "response",
          IF urls[Len(urls)].path = "/project"
          THEN futval[tagof[LoginTask]].Body.id
          ELSE product)

\* A login that resolves _login_completed at the first answer it gets
ResolvedAtOnce(completed, following) ==
    IF completed = "pending" THEN "result" ELSE completed

\* _login_completed after a step of _login that did not raise: it is
\* resolved after the last request of the branch (smartbridge.py:860-861)
Resolved(completed, following) ==
    IF following = Done /\ completed = "pending" THEN "result" ELSE completed

\* _get_ra3_buttons_from_group: the index gets an entry for the button, or
\* the LED, of every button the group lists (smartbridge.py:1094-1114); the
\* entries it has stay
Indexed(index, listed, key, keypad) ==
    [x \in DOMAIN index |->
        IF \E i \in 1..Len(listed) : listed[i][key] = x THEN keypad ELSE index[x]]

\* _login with the requests it makes, one step: from its start or from the
\* answer to a request to the next request, or to its end
\* (smartbridge.py:816-866)
LoginTopology ==
    /\ Woken(LoginTask)
    /\ ready' = Tail(ready)
    /\ IF must_cancel[LoginTask]
       THEN /\ TaskEnds(LoginTask, "cancelled", "done")
            /\ UNCHANGED <<cacheVars, tagged_subs, login_completed, login_step>>
       ELSE IF pc[LoginTask] = "created"
       THEN /\ TaskSends(LoginTask, "request", NoCb, tagged_subs)
            /\ urls' = <<Req("request", "/area", NoId, NoCb)>>
            /\ UNCHANGED <<devices, buttons, ra3_button_map, led_device_map,
                           occupancy_groups, sensors, button_subscribers,
                           occupancy_subscribers, raising, registered, called, product, facade,
                           login_completed, login_step>>
       ELSE IF \/ BridgeAwaited(LoginTask) \in {"timeout", "disconnected"}
               \/ /\ BridgeAwaited(LoginTask) = "error_response"
                  /\ ~Swallowed(urls[Len(urls)])
               \/ LoginCache.raised
       THEN /\ TaskEnds(LoginTask,
                        IF BridgeAwaited(LoginTask) = "response" THEN "raised"
                        ELSE BridgeAwaited(LoginTask),
                        "failed")
            /\ CommitCache(LoginCache)
            /\ login_completed' = IF login_completed = "pending" THEN "exception"
                                  ELSE login_completed
            /\ UNCHANGED <<ra3_button_map, led_device_map, button_subscribers,
                           occupancy_subscribers, raising, registered, product, urls, facade,
                           tagged_subs, login_step>>
       ELSE /\ login_step' = login_step + 1
            /\ CommitCache(LoginCache)
            /\ ra3_button_map' =
                   IF urls[Len(urls)].path = "/device/{}/buttongroup/expanded"
                   THEN Indexed(ra3_button_map, futval[tagof[LoginTask]].Body.entries,
                                "id", urls[Len(urls)].id)
                   ELSE ra3_button_map
            /\ led_device_map' =
                   IF urls[Len(urls)].path = "/device/{}/buttongroup/expanded"
                   THEN Indexed(led_device_map, futval[tagof[LoginTask]].Body.entries,
                                "led", urls[Len(urls)].id)
                   ELSE led_device_map
            /\ IF Following = Done
               THEN /\ TaskEnds(LoginTask, "finished", "done")
                    /\ tagged_subs' = Registered(tagged_subs, LoginTask)
                    /\ UNCHANGED urls
               ELSE /\ TaskSends(LoginTask, Following.k, Following.cb,
                                 Registered(tagged_subs, LoginTask))
                    /\ urls' = Append(urls, Following)
            /\ login_completed' = Resolved(login_completed, Following)
            /\ UNCHANGED <<button_subscribers, occupancy_subscribers, raising, registered,
                           product, facade>>
    /\ UNCHANGED <<writer_closed, close_result, buffer, eof, nframes, unsolicited_subs,
                   run_pc, last, mon_pc, mon_cancel, leap_set, session, subscribers,
                   timed_out>>

\* _ping resumes: from its start, from its cancelled sleep, or from the end
\* of its request (smartbridge.py:868-882)
PingStep ==
    /\ Woken(PingTask)
    /\ IF must_cancel[PingTask]
       THEN /\ TaskEnds(PingTask, "cancelled", "done")
            /\ ready' = Tail(ready)
            /\ UNCHANGED <<cacheVars, tagged_subs, writer_closed, close_result>>
       ELSE IF pc[PingTask] = "created"
       THEN /\ pc' = [pc EXCEPT ![PingTask] = "sleeping"]
            /\ ready' = Tail(ready)
            /\ UNCHANGED <<cacheVars, in_flight, fut, futval, owner, sent, tagof, kind, cb_of,
                           next_tag, outcome, must_cancel, tagged_subs, writer_closed,
                           close_result>>
       ELSE IF BridgeAwaited(PingTask) = "response"
       THEN /\ TaskEnds(PingTask, "none", "sleeping")
            /\ ready' = Tail(ready)
            /\ UNCHANGED <<cacheVars, tagged_subs, writer_closed, close_result>>
       ELSE /\ Commit(LeapClose(Returned([St EXCEPT !.ready = Tail(ready)], PingTask)))
            /\ pc' = [pc EXCEPT ![PingTask] =
                         IF /\ BridgeAwaited(PingTask) = "timeout"
                            /\ LeapClose(Returned(St, PingTask)).close_result = "ok"
                         THEN "done" ELSE "failed"]
            /\ outcome' = [outcome EXCEPT ![PingTask] = BridgeAwaited(PingTask)]
            /\ UNCHANGED <<cacheVars, owner, sent, tagof, kind, cb_of, next_tag>>
    /\ UNCHANGED <<cacheVars, buffer, eof, nframes, unsolicited_subs, run_pc, last, mon_pc,
                   mon_cancel, leap_set, login_completed, login_step, session,
                   subscribers, timed_out>>

\* The timer of asyncio.sleep(PING_INTERVAL) fires and _ping sends its request
PingSend ==
    /\ LoopIdle
    /\ ready = <<>>
    /\ pc[PingTask] = "sleeping"
    /\ ~must_cancel[PingTask]
    /\ next_tag + Reserved < MaxTags
    /\ TaskSends(PingTask, "request", NoCb, tagged_subs)
    /\ UNCHANGED <<cacheVars, writer_closed, close_result, ready, buffer, eof, nframes,
                   unsolicited_subs, run_pc, last, bridgeVars>>

\* The application awaits a request of the facade in a task of its own:
\* _request raises BridgeDisconnectedError when there is no LeapProtocol
UserRequest ==
    /\ LoopIdle
    /\ mon_pc # "none"
    /\ pc[UserTask] = "idle"
    /\ IF leap_set
       THEN /\ next_tag + Reserved < MaxTags
            /\ TaskSends(UserTask, "request", NoCb, tagged_subs)
       ELSE TaskEnds(UserTask, "disconnected", "done") /\ UNCHANGED tagged_subs
    /\ UNCHANGED <<cacheVars, writer_closed, close_result, ready, buffer, eof, nframes,
                   unsolicited_subs, run_pc, last, bridgeVars>>

\* The application's task resumes with the outcome of its request
UserStep ==
    /\ Woken(UserTask)
    /\ ready' = Tail(ready)
    /\ TaskEnds(UserTask, BridgeAwaited(UserTask), "done")
    /\ UNCHANGED <<cacheVars, tagged_subs, writer_closed, close_result, buffer, eof, nframes,
                   unsolicited_subs, run_pc, last, bridgeVars>>

\* The application cancels its task, or the time it allows for the call ends
UserCancel ==
    /\ LoopIdle
    /\ pc[UserTask] = "awaiting"
    /\ ~must_cancel[UserTask]
    /\ ~timed_out[UserTask]
    /\ Commit(CancelTask(St, UserTask))
    /\ UNCHANGED <<cacheVars, taskVars, streamVars, unsolicited_subs, run_pc, last, bridgeVars>>

\* REQUEST_TIMEOUT passes for the wait_for around a request of the login or
\* of the ping: the task is cancelled, and the CancelledError becomes a
\* TimeoutError when it resumes
RequestTimeout ==
    \E t \in {LoginTask, PingTask} :
        /\ LoopIdle
        /\ pc[t] = "awaiting"
        /\ ~must_cancel[t]
        /\ ~timed_out[t]
        /\ timed_out' = [timed_out EXCEPT ![t] = TRUE]
        /\ Commit(FutureCancel(St, tagof[t]))
        /\ UNCHANGED <<cacheVars, taskVars, streamVars, unsolicited_subs, run_pc, last, mon_pc,
                       mon_cancel, leap_set, login_completed, login_step, session,
                       subscribers>>

\* REQUEST_TIMEOUT passes for the wait_for around the request of the
\* application's task (smartbridge.py:254-257)
FacadeTimeout ==
    /\ LoopIdle
    /\ pc[UserTask] = "awaiting"
    /\ ~must_cancel[UserTask]
    /\ ~timed_out[UserTask]
    /\ timed_out' = [timed_out EXCEPT ![UserTask] = TRUE]
    /\ Commit(FutureCancel(St, tagof[UserTask]))
    /\ UNCHANGED <<cacheVars, taskVars, streamVars, unsolicited_subs, run_pc, last, mon_pc,
                   mon_cancel, leap_set, login_completed, login_step, session,
                   subscribers>>

\* The bridge answers the request of the application's task with a status
\* that is no success, or with no status at all, or with 201
BridgeRefuses ==
    \E st \in {StatusNotFound, NoStatus, StatusCreated} :
        /\ mon_pc = "session"
        /\ pc[UserTask] = "awaiting"
        /\ tagof[UserTask] \in sent
        /\ fut[tagof[UserTask]] = "pending"
        /\ ~Buffered(tagof[UserTask])
        /\ FeedData(Frame("dict", tagof[UserTask], st, "ReadResponse"))

\* add_subscriber: the application registers a callback for the device
AddSubscriber ==
    /\ LoopIdle
    /\ subscribers = {}
    /\ subscribers' = {"device"}
    /\ UNCHANGED <<cacheVars, protoVars, futVars, streamVars, taskVars, unsolicited_subs, run_pc,
                   ready, must_cancel, last, close_result, mon_pc, mon_cancel,
                   leap_set, login_completed, login_step, session, timed_out>>

\* The ids the application registers callbacks for: those of the devices,
\* LEDs, buttons and groups that the login has loaded
Loadable ==
    [device |-> {d \in DeviceIds : devices[d].present}
                    \cup {l \in LedIds : led_device_map[l] # NoId},
     button |-> {b \in ButtonIds : buttons[b] # NoId \/ ra3_button_map[b] # NoId},
     occupancy |-> {g \in GroupIds : occupancy_groups[g] # NoId}]

\* The application may register a callback: it does so after connect() has
\* returned, a few times in all
MaySubscribe ==
    /\ LoopIdle
    /\ mon_pc = "session"
    /\ login_completed = "result"
    /\ Cardinality(subscribers \cup button_subscribers \cup occupancy_subscribers)
           < MaxSubscribers

\* add_subscriber(device_id, callback), with a callback that returns or one
\* that raises
AddDeviceSubscriber ==
    \E id \in Loadable.device \ subscribers, r \in BOOLEAN :
        /\ MaySubscribe
        /\ subscribers' = subscribers \cup {id}
        /\ raising' = IF r THEN raising \cup {id} ELSE raising
        /\ UNCHANGED <<devices, buttons, ra3_button_map, led_device_map,
                       occupancy_groups, sensors, button_subscribers, occupancy_subscribers,
                       called, product, urls, facade, registered, protoVars, futVars,
                       streamVars, taskVars, unsolicited_subs, run_pc, ready,
                       must_cancel, last, close_result, mon_pc, mon_cancel,
                       leap_set, login_completed, login_step, session, timed_out>>

\* add_button_subscriber(button_id, callback)
AddButtonSubscriber ==
    \E id \in Loadable.button \ button_subscribers, r \in BOOLEAN :
        /\ MaySubscribe
        /\ button_subscribers' = button_subscribers \cup {id}
        /\ raising' = IF r THEN raising \cup {id} ELSE raising
        /\ UNCHANGED <<devices, buttons, ra3_button_map, led_device_map,
                       occupancy_groups, sensors, occupancy_subscribers, called, product,
                       urls, facade, registered, protoVars, futVars, streamVars, taskVars,
                       unsolicited_subs, run_pc, ready, must_cancel, last,
                       close_result, bridgeVars>>

\* add_occupancy_subscriber(occupancy_group_id, callback)
AddOccupancySubscriber ==
    \E id \in Loadable.occupancy \ occupancy_subscribers, r \in BOOLEAN :
        /\ MaySubscribe
        /\ occupancy_subscribers' = occupancy_subscribers \cup {id}
        /\ raising' = IF r THEN raising \cup {id} ELSE raising
        /\ UNCHANGED <<devices, buttons, ra3_button_map, led_device_map,
                       occupancy_groups, sensors, button_subscribers, called, product,
                       urls, facade, registered, protoVars, futVars, streamVars, taskVars,
                       unsolicited_subs, run_pc, ready, must_cancel, last,
                       close_result, bridgeVars>>

\* The ids the application registers callbacks for again and again
Registrable ==
    [device |-> {"l1"}, button |-> {"b1", "kb1"}, occupancy |-> {"g1"}]

\* The keys of the three tables of callbacks
Keys ==
    [device |-> subscribers, button |-> button_subscribers,
     occupancy |-> occupancy_subscribers]

\* A table that keeps the callback it has for an id
AssignedIfAbsent(keys, ids, id, r) ==
    IF id \in keys THEN ids
    ELSE IF r THEN ids \cup {id} ELSE ids \ {id}

\* table[id] = callback_: the callback under id is the new one, which raises
\* when called (r) or returns
Assigned(keys, ids, id, r) == IF r THEN ids \cup {id} ELSE ids \ {id}

\* add_subscriber, add_button_subscriber or add_occupancy_subscriber, called
\* for an id that may have a callback already (smartbridge.py:133-161)
Register ==
    \E table \in {"device", "button", "occupancy"}, r \in BOOLEAN :
        \E id \in Loadable[table] \cap Registrable[table] :
            /\ LoopIdle
            /\ mon_pc = "session"
            /\ login_completed = "result"
            /\ Len(registered) < MaxRegistrations
            /\ registered' = Append(registered,
                                   [table |-> table, id |-> id, raises |-> r])
            /\ subscribers' =
                   IF table = "device" THEN subscribers \cup {id} ELSE subscribers
            /\ button_subscribers' =
                   IF table = "button" THEN button_subscribers \cup {id}
                   ELSE button_subscribers
            /\ occupancy_subscribers' =
                   IF table = "occupancy" THEN occupancy_subscribers \cup {id}
                   ELSE occupancy_subscribers
            /\ raising' = Assigned(Keys[table], raising, id, r)
            /\ UNCHANGED <<devices, buttons, ra3_button_map, led_device_map,
                           occupancy_groups, sensors, called, product, urls, facade,
                           protoVars, futVars, streamVars, taskVars,
                           unsolicited_subs, run_pc, ready, must_cancel, last,
                           close_result, mon_pc, mon_cancel, leap_set,
                           login_completed, login_step, session, timed_out>>

\* A callback called by run() raised an exception that _monitor_once does not
\* catch (a KeyError, a TypeError): its finally runs, and the exception
\* leaves _monitor, which ends (smartbridge.py:541-554, 587-598)
SessionCrashed ==
    /\ mon_pc = "session"
    /\ run_pc = "raised"
    /\ Commit(Teardown(St))
    /\ mon_pc' = "failed"
    /\ leap_set' = (leap_set /\ TeardownRaises(St))
    /\ login_completed' = IF login_completed = "pending" THEN "exception"
                          ELSE login_completed
    /\ run_pc' = "new"
    /\ UNCHANGED <<cacheVars, streamVars, taskVars, unsolicited_subs, last, mon_cancel,
                   login_step, session, subscribers, timed_out>>

\* The bridge sends an event while run() waits for a line, the login done
Sends(f) ==
    /\ mon_pc = "session"
    /\ run_pc = "waiting"
    /\ ready = <<>>
    /\ buffer = <<>>
    /\ ~eof
    /\ ~writer_closed
    /\ login_completed = "result"
    /\ pc[LoginTask] = "done"
    /\ nframes < Len(urls) + MaxEvents
    /\ nframes' = nframes + 1
    /\ buffer' = <<f>>
    /\ run_pc' = "woken"
    /\ ready' = <<WakeOf(RunTask)>>
    /\ UNCHANGED <<cacheVars, bridgeVars, protoVars, futVars, taskVars, sent, eof,
                   unsolicited_subs, must_cancel, last, close_result>>

\* What the bridge may report without being asked: the level, fan speed and
\* tilt of a zone, the state of an LED; "zx" and "l2" are not in its
\* topology, and "z1" is a zone of the Caseta bridge only
ZoneStatuses ==
    {Body("ZoneStatus", z, l, ft[1], ft[2], "None", <<>>) :
        z \in {"z1", "zx"}, l \in {NoLevel, 50},
        ft \in {<<"None", NoTilt>>, <<"High", 30>>}}

LedStatuses ==
    {Body("LEDStatus", l, NoLevel, "None", NoTilt, st, <<>>) :
        l \in LedIds, st \in {"On", "Off"}}

\* An untagged ReadResponse: the status of a zone or of an LED
BridgeReports ==
    \E b \in ZoneStatuses \cup LedStatuses :
        /\ leap_set
        /\ Sends(Message("dict", NoTag, StatusOK, "ReadResponse",
                         IF b.type = "ZoneStatus" THEN "OneZoneStatus"
                         ELSE "OneLEDStatus",
                         b))

\* An untagged OneZoneStatus of a fan or of a light that is off: FanSpeed
\* is Off or Medium, Level is 0 or absent
FanReports ==
    \E z \in {"z1", "z9"}, level \in {NoLevel, 0}, fan \in {"Off", "Medium"} :
        /\ leap_set
        /\ Sends(Message("dict", NoTag, StatusOK, "ReadResponse", "OneZoneStatus",
                         Body("ZoneStatus", z, level, fan, NoTilt, "None", <<>>)))

\* An is_on that takes any known level for on
IsOnKnown(dev) ==
    \/ dev.current_state >= 0
    \/ (IF dev.fan_speed = "None" THEN "Off" ELSE dev.fan_speed) # "Off"

\* is_on (smartbridge.py:236-246): current_state > 0 or
\* (fan_speed or FAN_OFF) != FAN_OFF, for an entry of self.devices
IsOn(dev) ==
    \/ dev.current_state > 0
    \/ (IF dev.fan_speed = "None" THEN "Off" ELSE dev.fan_speed) # "Off"

\* ------------------------------------------------------- _format_duration
\* A timedelta is its normalised fields: days, seconds below 86400 and
\* microseconds below 1000000.  A number of whole seconds is kept as the
\* pair of its days and seconds, for it may exceed 32 bits.
Timedelta(days, seconds, microseconds) ==
    [days |-> days, seconds |-> seconds, microseconds |-> microseconds]

SecondsPerDay == 86400
MicrosPerSecond == 1000000
\* Bits of the significand of a float
MantissaBits == 53

RECURSIVE Pow2(_)
Pow2(n) == IF n = 0 THEN 1 ELSE 2 * Pow2(n - 1)

\* 2^e seconds, as days and seconds
RECURSIVE Pow2Seconds(_)
Pow2Seconds(e) ==
    IF e = 0 THEN [days |-> 0, seconds |-> 1]
    ELSE LET half == Pow2Seconds(e - 1)
         IN  [days |-> 2 * half.days + (2 * half.seconds) \div SecondsPerDay,
              seconds |-> (2 * half.seconds) % SecondsPerDay]

AtLeast(a, b) ==
    a.days > b.days \/ (a.days = b.days /\ a.seconds >= b.seconds)

\* The binary exponent of a number of whole seconds that is 1 or more
Exponent(t) ==
    CHOOSE e \in 0..46 :
        AtLeast(t, Pow2Seconds(e)) /\ ~AtLeast(t, Pow2Seconds(e + 1))

\* timedelta.total_seconds() is the float nearest to the microseconds
\* divided by 10**6.  Between 2^e and 2^(e+1) the floats are 2^(e-52)
\* apart, so s + us/10**6 is rounded up to s + 1, whose significand is
\* even, exactly when 1 - us/10**6 is 2^(e-53) or less.
RoundsUp(d) ==
    /\ d.microseconds > 0
    /\ AtLeast(d, Pow2Seconds(0))
    /\ LET e == Exponent(d)
       IN  /\ MantissaBits - e <= 20
           /\ MicrosPerSecond - d.microseconds
                  <= MicrosPerSecond \div Pow2(MantissaBits - e)

\* A total_seconds that is exact: the whole seconds are those of the fields
FlooredExactly(d) == [days |-> d.days, seconds |-> d.seconds]

\* math.floor(duration.total_seconds())
Floored(d) ==
    IF ~RoundsUp(d) THEN [days |-> d.days, seconds |-> d.seconds]
    ELSE IF d.seconds + 1 = SecondsPerDay THEN [days |-> d.days + 1, seconds |-> 0]
    ELSE [days |-> d.days, seconds |-> d.seconds + 1]

\* The decimal digits of a natural number, one character each
Digit(n) == <<"0", "1", "2", "3", "4", "5", "6", "7", "8", "9">>[n + 1]

RECURSIVE Decimal(_)
Decimal(n) == IF n < 10 THEN <<Digit(n)>> ELSE Decimal(n \div 10) \o <<Digit(n % 10)>>

\* f"{n:02}": at least two digits, zeros on the left
Padded(n) == IF n < 10 THEN <<"0">> \o Decimal(n) ELSE Decimal(n)

\* _format_duration (smartbridge.py:1457-1464), the string as the sequence
\* of its characters.  total_seconds is days * 86400 + seconds, a multiple
\* of 60 and of 3600 plus those of the seconds of the day; the quotients
\* total_seconds / 60 and total_minutes / 60 are floats that are exact for
\* every timedelta
FormatDuration(duration) ==
    LET total_seconds == Floored(duration)
        seconds == total_seconds.seconds % 60
        minutes == (total_seconds.seconds \div 60) % 60
        hours == total_seconds.days * 24 + total_seconds.seconds \div 3600
    IN  Padded(hours) \o <<":">> \o Padded(minutes) \o <<":">> \o Padded(seconds)

\* The durations set_value is called with: from nothing to days, with and
\* without a fraction of a second, and some of five centuries
FadeDays == {0, 4, 198841}
FadeSeconds == {0, 4, 59, 60, 61, 3599, 3600, 3661, 6784, 86399}
FadeMicroseconds == {0, 1, 500000, 999999}

Durations ==
    {Timedelta(d, sec, us) :
        d \in FadeDays, sec \in FadeSeconds, us \in FadeMicroseconds}

\* set_value(device_id, 50, fade_time) of a light
FadeOp(dev, duration) ==
    [name |-> "set_value", dev |-> dev, val |-> 50, fade_time |-> duration]

\* The application is about to call set_value with some fade_time
InitFade ==
    /\ Constructed
    /\ facade \in {FadeOp("d1", d) : d \in Durations}

\* The GoToDimmedLevel command set_value builds for a light with a
\* fade_time (smartbridge.py:306-308, 321-334): its FadeTime is the
\* formatted duration
FadeCommand(op) ==
    [k |-> "request", path |-> "/zone/{}/commandprocessor", id |-> ZoneOf[op.dev],
     cb |-> NoCb, Level |-> op.val, FadeTime |-> FormatDuration(op.fade_time)]

FormatFade ==
    /\ urls = <<>>
    /\ facade # NoOp
    /\ urls' = <<FadeCommand(facade)>>
    /\ UNCHANGED <<in_flight, fut, futval, owner, tagged_subs, unsolicited_subs,
                   writer_closed, sent, buffer, eof, run_pc, ready, pc, kind,
                   cb_of, tagof, must_cancel, outcome, next_tag, nframes, last,
                   close_result, bridgeVars, devices, buttons, ra3_button_map,
                   led_device_map, occupancy_groups, sensors, button_subscribers,
                   occupancy_subscribers, raising, called, product, facade,
                   registered>>

\* set_value with a fade_time, for every duration
SpecFade == InitFade /\ [][FormatFade]_vars

\* What the bridge may send for the subscription to `path` with `id`
Updates(path, id) ==
    CASE path = "/button/{}/status/event" ->
             {Body("ButtonStatus", id, NoLevel, "None", NoTilt, e, <<>>) :
                 e \in {Pressed, Released}}
      [] path = "/led/{}/status" ->
             {Body("LEDStatus", id, NoLevel, "None", NoTilt, st, <<>>) :
                 st \in {"On", "Off"}}
      [] path = "/occupancygroup/status" ->
             {NoBody}
             \cup {Body("OccupancyGroupStatuses", NoId, NoLevel, "None", NoTilt,
                        "None", es) :
                      es \in {<<[id |-> "g1", status |-> "Occupied"],
                                [id |-> "g2", status |-> "Unoccupied"]>>,
                              <<[id |-> "gx", status |-> "Occupied"],
                                [id |-> "g2", status |-> "Occupied"]>>}}
      [] OTHER -> {}

\* A frame with the tag of a subscription of the login that the bridge
\* accepted
BridgeUpdates ==
    \E t \in DOMAIN urls :
        /\ tagged_subs[t] # NoCb
        /\ \E b \in Updates(urls[t].path, urls[t].id) :
               Sends(Message("dict", t, StatusOK, "ReadResponse", "None", b))

\* The same for the subscriptions to the LEDs alone
LedUpdates ==
    \E t \in DOMAIN urls :
        /\ tagged_subs[t] # NoCb
        /\ urls[t].path = "/led/{}/status"
        /\ \E b \in Updates(urls[t].path, urls[t].id) :
               Sends(Message("dict", t, StatusOK, "ReadResponse", "None", b))

\* A facade that stores the level it asked for when set_value returns
FacadeCacheOptimistic(op, devs) ==
    CASE op.name = "raise_cover" -> [devs EXCEPT ![op.dev].current_state = 100]
      [] op.name = "lower_cover" -> [devs EXCEPT ![op.dev].current_state = 0]
      [] op.name = "set_value" -> [devs EXCEPT ![op.dev].current_state = op.val]
      [] OTHER -> devs

\* A facade that leaves the cache to the events of the bridge
FacadeCacheUntouched(op, devs) == devs

\* self.devices after a call of the facade returned: raise_cover and
\* lower_cover store 100 and 0 (smartbridge.py:363-377); set_value and
\* stop_cover store nothing
FacadeCache(op, devs) ==
    CASE op.name = "raise_cover" -> [devs EXCEPT ![op.dev].current_state = 100]
      [] op.name = "lower_cover" -> [devs EXCEPT ![op.dev].current_state = 0]
      [] OTHER -> devs

\* The application's task calls set_value, stop_cover, raise_cover or
\* lower_cover for a device, once connect() has returned: the call sends a
\* CreateRequest to the device's zone and awaits the answer, or returns at
\* once when the device has no zone
FacadeCalls(op) ==
    /\ LoopIdle
    /\ mon_pc = "session"
    /\ leap_set
    /\ login_completed = "result"
    /\ pc[LoginTask] = "done"
    /\ pc[UserTask] = "idle"
    /\ devices[op.dev].present
    /\ facade' = op
    /\ IF devices[op.dev].zone = NoId
       THEN /\ TaskEnds(UserTask, "none", "done")
            /\ devices' = FacadeCache(op, devices)
            /\ UNCHANGED tagged_subs
       ELSE /\ TaskSends(UserTask, "request", NoCb, tagged_subs)
            /\ UNCHANGED devices
    /\ UNCHANGED <<buttons, ra3_button_map, led_device_map, occupancy_groups, sensors,
                   button_subscribers, occupancy_subscribers, raising, registered, called,
                   product, urls, writer_closed, close_result, ready, buffer, eof,
                   nframes, unsolicited_subs, run_pc, last, bridgeVars>>

SetValue == \E d \in DeviceIds : FacadeCalls(Op("set_value", d, 50))

StopCover == \E d \in DeviceIds : FacadeCalls(Op("stop_cover", d, NoLevel))

RaiseCover == \E d \in DeviceIds : FacadeCalls(Op("raise_cover", d, NoLevel))

LowerCover == \E d \in DeviceIds : FacadeCalls(Op("lower_cover", d, NoLevel))

\* The button group of each keypad button the bridge holds
ButtonGroupOf == [b \in ButtonIds |-> IF b = "kb1" THEN "bg1" ELSE NoId]

\* A tap_button that looks for the button in the button map only
TapAnyKeypad(devs, keypad, group, button) ==
    IF ra3_button_map[button] # NoId THEN "request" ELSE "logged"

\* tap_button up to its request (smartbridge.py:519-531): the device
\* dictionary, the device's button_groups, the group's buttons.  The
\* button_groups of a keypad is the dictionary _load_ra3_station_device
\* built, with the groups and buttons that are in _ra3_button_map for it;
\* that of any other device is None or a list, whose .get is an
\* AttributeError
TapButtonEnds(devs, keypad, group, button) ==
    IF ~devs[keypad].present THEN "logged"
    ELSE IF \A b \in ButtonIds : ra3_button_map[b] # keypad THEN "raised"
    ELSE IF \A b \in ButtonIds :
                ra3_button_map[b] = keypad => ButtonGroupOf[b] # group
    THEN "logged"
    ELSE IF ra3_button_map[button] = keypad /\ ButtonGroupOf[button] = group
    THEN "request"
    ELSE "logged"

\* A call of tap_button, with its arguments
TapOp(keypad, group, button) ==
    [name |-> "tap_button", dev |-> keypad, val |-> NoLevel, group |-> group,
     button |-> button]

\* The application's task calls tap_button(keypad, group, button), once
\* connect() has returned
TapButton ==
    \E keypad \in {"k1", "d1", "1"}, group \in {"bg1", "bgx"},
       button \in {"kb1", "b1"} :
        /\ LoopIdle
        /\ mon_pc = "session"
        /\ leap_set
        /\ login_completed = "result"
        /\ pc[LoginTask] = "done"
        /\ pc[UserTask] = "idle"
        /\ facade' = TapOp(keypad, group, button)
        /\ IF TapButtonEnds(devices, keypad, group, button) = "request"
           THEN /\ TaskSends(UserTask, "request", NoCb, tagged_subs)
                /\ urls' = Append(urls, Req("request", "/button/{}/commandprocessor",
                                            button, "PressAndRelease"))
           ELSE /\ TaskEnds(UserTask,
                            IF TapButtonEnds(devices, keypad, group, button)
                                  = "logged"
                            THEN "none" ELSE "raised",
                            "done")
                /\ UNCHANGED <<tagged_subs, urls>>
        /\ UNCHANGED <<devices, buttons, ra3_button_map, led_device_map,
                       occupancy_groups, sensors, button_subscribers, occupancy_subscribers,
                       raising, registered, called, product, writer_closed,
                       close_result, ready, buffer, eof, nframes, unsolicited_subs,
                       run_pc, last, bridgeVars>>

\* The bridge answers the CreateRequest: 201 Created with the ZoneStatus the
\* command leads to, or an error status
FacadeAnswers ==
    \E st \in {StatusCreated, StatusNotFound} :
        /\ LoopIdle
        /\ mon_pc = "session"
        /\ ~eof
        /\ ~writer_closed
        /\ facade # NoOp
        /\ pc[UserTask] = "awaiting"
        /\ tagof[UserTask] \in sent
        /\ fut[tagof[UserTask]] = "pending"
        /\ ~Buffered(tagof[UserTask])
        /\ nframes' = nframes + 1
        /\ buffer' = Append(buffer,
               Message("dict", tagof[UserTask], st, "CreateResponse",
                       "OneZoneStatus",
                       IF st # StatusCreated THEN NoBody
                       ELSE Body("ZoneStatus", devices[facade.dev].zone,
                                 CASE facade.name = "set_value" -> facade.val
                                   [] facade.name = "raise_cover" -> 100
                                   [] facade.name = "lower_cover" -> 0
                                   [] OTHER -> devices[facade.dev].current_state,
                                 "None", NoTilt, "None", <<>>)))
        /\ run_pc' = Fed(run_pc)
        /\ ready' = FedReady(run_pc, ready)
        /\ UNCHANGED <<cacheVars, bridgeVars, protoVars, futVars, taskVars, sent, eof,
                       unsolicited_subs, must_cancel, last, close_result>>

\* The application's task resumes in the call of the facade: _request
\* returns the answer or raises, and the call returns or raises with it
FacadeStep ==
    /\ Woken(UserTask)
    /\ facade # NoOp
    /\ ready' = Tail(ready)
    /\ TaskEnds(UserTask, BridgeAwaited(UserTask), "done")
    /\ devices' = IF BridgeAwaited(UserTask) = "response"
                  THEN FacadeCache(facade, devices)
                  ELSE devices
    /\ UNCHANGED <<buttons, ra3_button_map, led_device_map, occupancy_groups, sensors,
                   button_subscribers, occupancy_subscribers, raising, registered, called,
                   product, urls, facade, tagged_subs, writer_closed, close_result,
                   buffer, eof, nframes, unsolicited_subs, run_pc, last, bridgeVars>>

\* Requests, subscriptions, their answers and events on a live connection
Next ==
    \/ CallRequest
    \/ CallSubscribe
    \/ Cancel
    \/ CleanUp
    \/ Resume
    \/ Deliver
    \/ StartRun
    \/ WakeRun
    \/ RunFrame
    \/ RunWait

Spec == Init /\ [][Next]_vars

\* Requests that are answered, cancelled, or failed by close()
NextClose ==
    \/ CallRequest
    \/ Cancel
    \/ CleanUp
    \/ Resume
    \/ Respond
    \/ FeedEof
    \/ StartRun
    \/ WakeRun
    \/ RunFrame
    \/ RunWait
    \/ Close

SpecClose == Init /\ [][NextClose]_vars

\* Unsolicited handlers and untagged traffic
NextUnsolicited ==
    \/ SubscribeUnsolicited
    \/ UnsubscribeUnsolicited
    \/ DeliverUntagged
    \/ FeedEof
    \/ StartRun
    \/ WakeRun
    \/ RunFrame
    \/ RunWait

SpecUnsolicited == Init /\ [][NextUnsolicited]_vars

\* A request of the facade at any moment of the monitor's life, answered
\* well or badly, late, or not at all
NextRequest ==
    \/ BridgeConnect
    \/ ConnectOk
    \/ SessionEnded
    \/ BackoffTimer
    \/ MonitorResume
    \/ LoginStep
    \/ PingStep
    \/ UserRequest
    \/ UserStep
    \/ FacadeTimeout
    \/ CleanUp
    \/ BridgeAnswers
    \/ BridgeRefuses
    \/ BridgeEof
    \/ WakeRun
    \/ RunFrame
    \/ RunWait

SpecRequest == Init /\ [][NextRequest]_vars

\* Callbacks registered and registered again, and the events that call them
NextRegister ==
    \/ BridgeConnect
    \/ ConnectOk
    \/ LoginTopology
    \/ PingStep
    \/ TopologyAnswers
    \/ Register
    \/ BridgeUpdates
    \/ SessionCrashed
    \/ CleanUp
    \/ WakeRun
    \/ RunFrame
    \/ RunWait

SpecRegister == Init /\ [][NextRegister]_vars

\* Calls of tap_button after a login, for keypads, groups and buttons the
\* bridge holds or not
NextTap ==
    \/ BridgeConnect
    \/ ConnectOk
    \/ LoginTopology
    \/ PingStep
    \/ TopologyAnswers
    \/ TapButton
    \/ FacadeAnswers
    \/ FacadeStep
    \/ CleanUp
    \/ WakeRun
    \/ RunFrame
    \/ RunWait

SpecTap == Init /\ [][NextTap]_vars

\* Overlapping requests and subscriptions, answered or cancelled
NextTags ==
    \/ CallRequest
    \/ CallSubscribe
    \/ Cancel
    \/ CleanUp
    \/ Resume
    \/ Respond
    \/ StartRun
    \/ WakeRun
    \/ RunFrame
    \/ RunWait

SpecTags == Init /\ [][NextTags]_vars

\* The statuses of lights and fans after a login
NextIsOn ==
    \/ BridgeConnect
    \/ ConnectOk
    \/ LoginTopology
    \/ PingStep
    \/ TopologyAnswers
    \/ BridgeReports
    \/ FanReports
    \/ CleanUp
    \/ WakeRun
    \/ RunFrame
    \/ RunWait

SpecIsOn == Init /\ [][NextIsOn]_vars

\* Subscriptions the bridge accepts or refuses, and frames on their tags
NextSubscribe ==
    \/ CallSubscribe
    \/ Cancel
    \/ CleanUp
    \/ Resume
    \/ DeliverStatus
    \/ StartRun
    \/ WakeRun
    \/ RunFrame
    \/ RunWait

SpecSubscribe == Init /\ [][NextSubscribe]_vars

\* The monitor and its sessions: connections made and lost, login
NextBridge ==
    \/ BridgeConnect
    \/ ConnectOk
    \/ ConnectFail
    \/ SessionEnded
    \/ BackoffTimer
    \/ MonitorResume
    \/ LoginStep
    \/ PingStep
    \/ RequestTimeout
    \/ AddSubscriber
    \/ CleanUp
    \/ BridgeAnswers
    \/ BridgeEvent
    \/ DeliverGarbage
    \/ BridgeEof
    \/ WakeRun
    \/ RunFrame
    \/ RunWait

SpecBridge == Init /\ [][NextBridge]_vars

\* The event loop runs every handle that is ready, and the timers of
\* asyncio.sleep and asyncio.wait_for fire.  What the connector and the
\* bridge do, and when, is theirs to choose.
Scheduling ==
    /\ WF_vars(SessionEnded)
    /\ WF_vars(BackoffTimer)
    /\ WF_vars(MonitorResume)
    /\ WF_vars(LoginStep)
    /\ WF_vars(PingStep)
    /\ WF_vars(RequestTimeout)
    /\ WF_vars(CleanUp)
    /\ WF_vars(WakeRun)
    /\ WF_vars(RunFrame)
    /\ WF_vars(RunWait)

\* The monitor and its sessions, on an event loop that runs
SpecConnect == Init /\ [][NextBridge]_vars /\ Scheduling

\* Pings, answered or not, with a request of the application in flight
NextPing ==
    \/ BridgeConnect
    \/ ConnectOk
    \/ SessionEnded
    \/ BackoffTimer
    \/ MonitorResume
    \/ LoginStep
    \/ PingStep
    \/ PingSend
    \/ UserRequest
    \/ UserStep
    \/ UserCancel
    \/ RequestTimeout
    \/ CleanUp
    \/ BridgeAnswers
    \/ BridgeEof
    \/ WakeRun
    \/ RunFrame
    \/ RunWait

SpecPing == Init /\ [][NextPing]_vars

\* Smartbridge.close() at any moment of a session
NextShutdown ==
    \/ BridgeConnect
    \/ ConnectOk
    \/ ConnectFail
    \/ SessionEnded
    \/ BackoffTimer
    \/ MonitorResume
    \/ BridgeClose
    \/ LoginStep
    \/ PingStep
    \/ PingSend
    \/ UserRequest
    \/ UserStep
    \/ CleanUp
    \/ BridgeAnswers
    \/ BridgeEof
    \/ WakeRun
    \/ RunFrame
    \/ RunWait

SpecShutdown == Init /\ [][NextShutdown]_vars

\* The first login of a bridge, request by request, every answer good or bad
NextLogin ==
    \/ BridgeConnect
    \/ ConnectOk
    \/ LoginTopology
    \/ PingStep
    \/ TopologyAnswers
    \/ CleanUp
    \/ WakeRun
    \/ RunFrame
    \/ RunWait

SpecLogin == Init /\ [][NextLogin]_vars

\* Logins on one connection after the other: the bridge closes the stream
\* at some moment, and the monitor connects again
NextRelogin ==
    \/ BridgeConnect
    \/ ConnectOk
    \/ SessionEnded
    \/ BackoffTimer
    \/ MonitorResume
    \/ LoginTopology
    \/ PingStep
    \/ TopologyAnswers
    \/ KeypadAnswersBare
    \/ BridgeEof
    \/ CleanUp
    \/ WakeRun
    \/ RunFrame
    \/ RunWait

SpecRelogin == Init /\ [][NextRelogin]_vars

\* The statuses of zones and LEDs after a login, with subscribers of devices
NextReports ==
    \/ BridgeConnect
    \/ ConnectOk
    \/ LoginTopology
    \/ PingStep
    \/ TopologyAnswers
    \/ AddDeviceSubscriber
    \/ BridgeReports
    \/ LedUpdates
    \/ SessionCrashed
    \/ CleanUp
    \/ WakeRun
    \/ RunFrame
    \/ RunWait

SpecReports == Init /\ [][NextReports]_vars

\* Calls of the facade after a login, their answers, and the bridge's reports
NextFacade ==
    \/ BridgeConnect
    \/ ConnectOk
    \/ LoginTopology
    \/ PingStep
    \/ TopologyAnswers
    \/ SetValue
    \/ StopCover
    \/ RaiseCover
    \/ LowerCover
    \/ FacadeAnswers
    \/ FacadeStep
    \/ BridgeReports
    \/ CleanUp
    \/ WakeRun
    \/ RunFrame
    \/ RunWait

SpecFacade == Init /\ [][NextFacade]_vars

\* The events of the login's subscriptions, with subscribers that return or
\* raise
NextEvents ==
    \/ BridgeConnect
    \/ ConnectOk
    \/ LoginTopology
    \/ PingStep
    \/ TopologyAnswers
    \/ AddDeviceSubscriber
    \/ AddButtonSubscriber
    \/ AddOccupancySubscriber
    \/ BridgeUpdates
    \/ SessionCrashed
    \/ CleanUp
    \/ WakeRun
    \/ RunFrame
    \/ RunWait

SpecEvents == Init /\ [][NextEvents]_vars

\* ------------------------------------------------------------------ claims
\* run() is about to read a frame: the next step of the program is RunFrame
Reading == run_pc = "running" /\ buffer # <<>>

\* C1: whenever run() reads a frame whose ClientTag is the tag of a request
\* in flight (its future pending), the future of exactly that request is
\* resolved with the frame's parsed Response and its entry is removed from
\* the in-flight table; no other future changes, and no tagged-subscription
\* or unsolicited callback is called for the frame.
C1_TagRouting ==
    [][(/\ Reading
        /\ Head(buffer).kind = "dict"
        /\ Head(buffer).tag \in Range(in_flight)
        /\ fut[Head(buffer).tag] = "pending")
       => (/\ fut'[Head(buffer).tag] = "result"
           /\ futval'[Head(buffer).tag] =
                  [StatusCode |-> StatusFromStr(Head(buffer).status),
                   CommuniqueType |-> Head(buffer).ctype,
                   MessageBodyType |-> Head(buffer).mbt,
                   Body |-> Head(buffer).body]
           /\ Head(buffer).tag \notin Range(in_flight')
           /\ \A t \in Tags \ {Head(buffer).tag} :
                  /\ fut'[t] = fut[t]
                  /\ futval'[t] = futval[t]
                  /\ (t \in Range(in_flight')) = (t \in Range(in_flight))
           /\ last'.cbs = <<>>
           /\ tagged_subs' = tagged_subs)]_vars

\* A frame resolved one of two requests in flight, the other is still pending
C1_Witness ==
    /\ last.route = "resolved"
    /\ fut[last.frame.tag] = "result"
    /\ \E t \in Range(in_flight) : t # last.frame.tag /\ fut[t] = "pending"

\* C2: once run() has resolved a subscribe request with a 2xx answer (and
\* the subscribing task was not cancelled), every later frame with that tag
\* is handed to the subscription's callback and the subscription stays
\* registered; none is dropped as unexpected, whether or not the subscribing
\* task has resumed yet.
C2_SubscriptionPersists ==
    [][(/\ Reading
        /\ Head(buffer).tag # NoTag
        /\ fut[Head(buffer).tag] = "result"
        /\ \/ tagged_subs[Head(buffer).tag] # NoCb
           \/ \E c \in Clients :
                  /\ pc[c] = "awaiting"
                  /\ tagof[c] = Head(buffer).tag
                  /\ kind[c] = "subscribe"
                  /\ ~must_cancel[c]
                  /\ futval[tagof[c]].StatusCode.code \in 200..299)
       => (/\ last'.route = "subscription"
           /\ last'.cbs = <<"cb">>
           /\ tagged_subs'[Head(buffer).tag] = "cb")]_vars

\* C9 (removal): the entry of a cancelled request is in the in-flight table
\* only as long as its clean_up callback is waiting in the event loop.
C9_Removal ==
    \A t \in Range(in_flight) :
        fut[t] = "cancelled" => CleanUpOf(t) \in Range(ready)

\* C9: when a request is cancelled (by its caller or by the timeout around
\* it) its tag leaves the in-flight table, and a response for that tag that
\* run() reads afterwards resolves no future, calls no callback, changes no
\* table other than dropping the tag, and run() goes on to the next frame.
C9_LateResponse ==
    /\ []C9_Removal
    /\ [][(/\ Reading
            /\ Head(buffer).tag # NoTag
            /\ fut[Head(buffer).tag] = "cancelled")
           => (/\ fut' = fut
               /\ futval' = futval
               /\ tagged_subs' = tagged_subs
               /\ Range(in_flight') = Range(in_flight) \ {Head(buffer).tag}
               /\ last'.route = "unexpected"
               /\ last'.cbs = <<>>
               /\ ready' = ready
               /\ run_pc' = "running")]_vars

\* run() dropped the late response of a cancelled request whose entry was
\* gone, while another request was in flight
C9_Witness ==
    /\ last.route = "unexpected"
    /\ fut[last.frame.tag] = "cancelled"
    /\ last.frame.tag \notin Range(in_flight)
    /\ pc[owner[last.frame.tag]] = "done"
    /\ outcome[owner[last.frame.tag]] = "cancelled"
    /\ run_pc = "running"

\* A step of LeapProtocol.close(): it closes the writer, fails a future, or
\* ends differently from the close() before it
Closing ==
    \/ writer_closed' # writer_closed
    \/ close_result' # close_result
    \/ \E t \in Tags : fut[t] # "exception" /\ fut'[t] = "exception"

\* C3: close() fails every request in flight when it is called with
\* BridgeDisconnectedError, none stays pending, and after it the in-flight
\* table and the tagged-subscription table are empty.
C3_CloseFailsAll ==
    [][Closing
       => (/\ \A t \in Range(in_flight) :
                 fut[t] = "pending" => fut'[t] = "exception"
           /\ \A t \in Tags : fut'[t] # "pending"
           /\ in_flight' = <<>>
           /\ \A t \in Tags : tagged_subs'[t] = NoCb)]_vars

\* C8: no operation completes a future that is done: Future.set_result and
\* Future.set_exception never raise InvalidStateError, also when close()
\* runs while the entry of a cancelled request is still in the table.
C8_CompletedOnce == close_result # "InvalidStateError"

LoggedIn ==
    /\ mon_pc \notin {"none", "done", "failed"}
    /\ login_completed = "result"

\* _monitor resumes from the sleep that follows a failure
Recovering == mon_pc = "backoff_woken" /\ ~mon_cancel /\ mon_pc' # mon_pc

\* C4: after the connector failed or a session ended with a reconnectable
\* failure, the monitor tears down the session's login task, ping task and
\* protocol, and makes a new connection attempt; it never ends unless it is
\* cancelled.
C4_KeepsReconnecting ==
    /\ [](mon_pc # "failed")
    /\ [][Recovering
           => (/\ mon_pc' = "connecting"
               /\ ~leap_set'
               /\ leap_set => writer_closed'
               /\ \A t \in {LoginTask, PingTask} :
                      pc[t] \in {"created", "sleeping", "awaiting"} => must_cancel'[t])]_vars

C6_PingTimeoutReconnects ==
    /\ [][(/\ pc[PingTask] = "awaiting"
            /\ pc'[PingTask] # "awaiting"
            /\ BridgeAwaited(PingTask) = "timeout")
           => writer_closed']_vars
    /\ [][(outcome[PingTask] = "timeout" /\ Recovering)
           => (mon_pc' = "connecting" /\ ~leap_set')]_vars
    /\ [][(outcome[PingTask] = "timeout" /\ session' # session)
           => pc'[LoginTask] = "created"]_vars

\* _monitor resumes with the CancelledError of Smartbridge.close()
ShuttingDown == mon_cancel /\ mon_pc \notin {"done", "failed"} /\ mon_pc' # mon_pc

\* C7: after Smartbridge.close() the monitor ends, the login and ping tasks
\* are cancelled and the protocol is closed: every request outstanding
\* fails with BridgeDisconnectedError, is_connected() is False, and no
\* request is written and no connection made afterwards.
C7_Shutdown ==
    /\ [][ShuttingDown
           => (/\ mon_pc' = "done"
               /\ ~leap_set'
               /\ leap_set => writer_closed'
               /\ \A t \in Range(in_flight) :
                      (fut[t] = "pending" /\ owner[t] = UserTask)
                          => fut'[t] = "exception"
               /\ \A t \in Tags : fut'[t] # "pending"
               /\ ~LoggedIn')]_vars
    /\ [][(mon_pc = "done" \/ mon_pc = "failed")
           => (session' = session /\ sent' = sent /\ mon_pc' = mon_pc)]_vars

\* C13: is_connected() is True only while a LEAP session is live (the monitor
\* is in run() on an open connection) and the login on that session has
\* completed; it is False while the session is down or being re-established.
C13_IsConnected ==
    LoggedIn => (/\ mon_pc = "session"
                 /\ leap_set
                 /\ ~writer_closed
                 /\ run_pc \notin {"done", "failed"}
                 /\ outcome[LoginTask] = "finished")

\* C12: the first connect() returns when _login_completed is resolved, and
\* that happens only in the step of _login that ends it: the answer to the
\* last request of the branch taken has been received and handled, every
\* request the login made has been answered, and none is outstanding.
C12_ConnectAfterLogin ==
    [][(login_completed = "pending" /\ login_completed' = "result")
       => (/\ pc[LoginTask] = "awaiting"
           /\ fut[tagof[LoginTask]] = "result"
           /\ Following = Done
           /\ pc'[LoginTask] = "done"
           /\ outcome'[LoginTask] = "finished"
           /\ login_step' = Len(urls')
           /\ \A t \in Range(in_flight') : owner'[t] # LoginTask)]_vars

C12_Witness ==
    /\ login_completed = "result"
    /\ pc[LoginTask] = "done"
    /\ urls # <<>>
    /\ login_step = Len(urls)
    /\ urls[Len(urls)].path \in {"/zone/{}/status", "/area/status"}

\* The requests of a Caseta login in the order of the claim, for the bridge
\* of the model: buttons b1 and b2, zones z1 and z2
C14_Requests ==
    <<Req("request", "/area", NoId, NoCb),
      Req("request", "/project", NoId, NoCb),
      Req("request", "/device", NoId, NoCb),
      Req("request", "/button", NoId, NoCb),
      Req("request", "/server/2/id", NoId, NoCb),
      Req("request", "/virtualbutton", NoId, NoCb),
      Req("request", "/occupancygroup", NoId, NoCb),
      Req("subscribe", "/occupancygroup/status", NoId,
          "_handle_occupancy_group_status"),
      Req("subscribe", "/button/{}/status/event", "b1", "_handle_button_status"),
      Req("subscribe", "/button/{}/status/event", "b2", "_handle_button_status"),
      Req("request", "/zone/{}/status", "z1", NoCb),
      Req("request", "/zone/{}/status", "z2", NoCb)>>

Event(type) ==
    /\ Reading
    /\ mon_pc = "session"
    /\ Head(buffer).kind = "dict"
    /\ Head(buffer).body # NoBody
    /\ Head(buffer).body.type = type
    /\ Route(St, Head(buffer)) \in {"unsolicited", "subscription"}

\* The call of a subscriber's callback, as `called` records it
CalledBack(table, id, arg) == [table |-> table, id |-> id, arg |-> arg]

\* C18: when run() handles an untagged OneZoneStatus message, the device
\* whose zone is the message's zone gets the Level if it is 0 or more and
\* keeps its level otherwise, gets the message's fan speed and tilt (none
\* when absent), and its subscriber, if there is one, is called exactly
\* once; no other device, no button, no occupancy group changes and no other
\* subscriber is called.
C18_OneZoneStatus ==
    [][(Event("ZoneStatus") /\ Head(buffer).tag = NoTag
                           /\ Head(buffer).mbt = "OneZoneStatus")
       => (/\ \A d \in DeviceIds :
                  IF devices[d].present /\ devices[d].zone = Head(buffer).body.id
                  THEN /\ devices'[d] =
                              [devices[d] EXCEPT
                                  !.current_state =
                                      IF Head(buffer).body.level >= 0
                                      THEN Head(buffer).body.level ELSE @,
                                  !.fan_speed = Head(buffer).body.fan_speed,
                                  !.tilt = Head(buffer).body.tilt]
                       /\ called' = IF d \in subscribers
                                    THEN <<CalledBack("device", d, "None")>> ELSE <<>>
                  ELSE /\ devices'[d] = devices[d]
                       /\ \A i \in 1..Len(called') : called'[i].id # d
           /\ buttons' = buttons
           /\ occupancy_groups' = occupancy_groups
           /\ run_pc' = "running")]_vars

C18_Witness ==
    /\ last.frame.mbt = "OneZoneStatus"
    /\ last.frame.body.id = "z1"
    /\ last.frame.body.level = NoLevel
    /\ last.frame.body.fan_speed = "High"
    /\ devices["d1"].current_state = 0
    /\ devices["d1"].fan_speed = "High"
    /\ devices["d1"].tilt = 30
    /\ subscribers = {"d1", "d2"}
    /\ called = <<CalledBack("device", "d1", "None")>>

C11_SubscriberExceptionCaught ==
    /\ [][(/\ Reading
           /\ mon_pc = "session"
           /\ \E i \in 1..Len(called') : called'[i].id \in raising)
          => run_pc' = "running"]_vars
    /\ [](mon_pc # "failed")

\* C17: when run() handles a button status event for a button of
\* self.buttons or of the RA3 button map, the button's state becomes the
\* EventType of the event, and the button subscriber registered for that
\* button, if there is one, is called exactly once, with that EventType.
C17_ButtonNotifiedOnce ==
    [][(/\ Event("ButtonStatus")
        /\ \/ buttons[Head(buffer).body.id] # NoId
           \/ ra3_button_map[Head(buffer).body.id] # NoId)
       => (/\ buttons[Head(buffer).body.id] # NoId
               => buttons'[Head(buffer).body.id] = Head(buffer).body.event
           /\ ra3_button_map[Head(buffer).body.id] # NoId
               => devices'[ra3_button_map[Head(buffer).body.id]].button =
                      Head(buffer).body.event
           /\ Head(buffer).body.id \in button_subscribers
               => Cardinality({i \in 1..Len(called') :
                      called'[i] = CalledBack("button", Head(buffer).body.id,
                                              Head(buffer).body.event)}) = 1)]_vars

\* C20: when run() handles an /occupancygroup/status update, every entry for
\* a group of self.occupancy_groups sets the group's status and calls the
\* group's occupancy subscriber, if there is one; an entry for a group that
\* is not there changes nothing and calls nothing; an update with no body
\* changes nothing.
C20_OccupancyUpdate ==
    [][(/\ Reading
        /\ mon_pc = "session"
        /\ Route(St, Head(buffer)) = "subscription"
        /\ tagged_subs[Head(buffer).tag] = "_handle_occupancy_group_status")
       => (/\ \A i \in 1..Len(Head(buffer).body.entries) :
                  IF occupancy_groups[Head(buffer).body.entries[i].id] # NoId
                  THEN /\ occupancy_groups'[Head(buffer).body.entries[i].id] =
                              Head(buffer).body.entries[i].status
                       /\ Head(buffer).body.entries[i].id \in occupancy_subscribers
                              => \E j \in 1..Len(called') :
                                     called'[j] =
                                         CalledBack("occupancy",
                                             Head(buffer).body.entries[i].id, "None")
                  ELSE /\ occupancy_groups'[Head(buffer).body.entries[i].id] = NoId
                       /\ \A j \in 1..Len(called') :
                              called'[j].id # Head(buffer).body.entries[i].id
           /\ Head(buffer).body = NoBody
                  => (occupancy_groups' = occupancy_groups /\ called' = <<>>)
           /\ devices' = devices
           /\ buttons' = buttons)]_vars

\* The application's task is about to resume in its call of the facade, the
\* bridge's answer to the CreateRequest being a success
Returning(name) ==
    /\ Woken(UserTask)
    /\ facade.name = name
    /\ pc[UserTask] = "awaiting"
    /\ BridgeAwaited(UserTask) = "response"

\* C15 as the spec has it: when set_value(device, level) returns after the
\* bridge's 201 Created with a ZoneStatus of that level, the device's cached
\* current_state is the level.
C15_SetValueCaches ==
    [][(/\ Returning("set_value")
        /\ futval[tagof[UserTask]].Body.type = "ZoneStatus"
        /\ futval[tagof[UserTask]].Body.level = facade.val)
       => devices'[facade.dev].current_state = facade.val]_vars

\* C15: set_value writes nothing to the cache, neither when it sends the
\* request nor when it returns with the bridge's answer: from the call on,
\* the device's cached current_state changes only when run() handles a
\* status message of the bridge for the device's zone, and it then becomes
\* the Level of that message.
C15_SetValueLeavesCache ==
    [][(/\ facade'.name = "set_value"
        /\ devices'[facade'.dev].current_state
              # devices[facade'.dev].current_state)
       => (/\ Event("ZoneStatus")
           /\ Head(buffer).body.id = devices[facade'.dev].zone
           /\ Head(buffer).body.level # NoLevel
           /\ devices'[facade'.dev].current_state = Head(buffer).body.level)]_vars

C15_Witness ==
    /\ facade = Op("set_value", "d1", 50)
    /\ pc[UserTask] = "done"
    /\ outcome[UserTask] = "response"
    /\ devices["d1"].current_state # 50

\* C16: when raise_cover(device) returns for a device with a zone, the
\* bridge having answered with a success, the device's cached current_state
\* is 100, and when lower_cover(device) returns it is 0, no status message
\* of the bridge having been handled in between; stop_cover, from its call
\* to its return, leaves the cache as it is.
C16_CoverOptimism ==
    [][/\ Returning("raise_cover") => devices'[facade.dev].current_state = 100
       /\ Returning("lower_cover") => devices'[facade.dev].current_state = 0
       /\ (Returning("raise_cover") \/ Returning("lower_cover"))
              => \A d \in DeviceIds \ {facade.dev} : devices'[d] = devices[d]
       /\ (facade'.name = "stop_cover" /\ (facade # facade' \/ Woken(UserTask)))
              => devices' = devices]_vars

C16_Witness ==
    /\ facade = Op("raise_cover", "d2", NoLevel)
    /\ pc[UserTask] = "done"
    /\ outcome[UserTask] = "response"
    /\ devices["d2"].current_state = 100
    /\ nframes = Len(urls) + 1

\* C21: when subscribe() resumes with an answer whose status is missing or
\* not in the 200 range, it returns the response and leaves the
\* tagged-subscription table as it is; the table gains an entry only when a
\* subscribe() resumes with a successful answer; and a frame whose tag has
\* no entry in the table calls no callback.
C21_RefusedSubscribe ==
    [][/\ \A c \in Clients :
              (/\ pc[c] = "awaiting"
               /\ pc'[c] = "done"
               /\ kind[c] = "subscribe"
               /\ Awaited(c) = "response"
               /\ ~(futval[tagof[c]].StatusCode.code \in 200..299))
              => (tagged_subs' = tagged_subs /\ outcome'[c] = "response")
       /\ \A t \in DOMAIN tagged_subs :
              (tagged_subs[t] = NoCb /\ tagged_subs'[t] # NoCb)
              => (/\ pc[owner[t]] = "awaiting"
                  /\ pc'[owner[t]] = "done"
                  /\ tagof[owner[t]] = t
                  /\ kind[owner[t]] = "subscribe"
                  /\ fut[t] = "result"
                  /\ futval[t].StatusCode.code \in 200..299)
       /\ (/\ Reading
           /\ Head(buffer).kind = "dict"
           /\ Head(buffer).tag # NoTag
           /\ tagged_subs[Head(buffer).tag] = NoCb)
          => (last'.cbs = <<>> /\ tagged_subs'[Head(buffer).tag] = NoCb)]_vars

\* A subscribe() has returned the refusal, and a later frame with its tag
\* was read and dropped
C21_Witness ==
    \E c \in Clients :
        /\ pc[c] = "done"
        /\ outcome[c] = "response"
        /\ tagged_subs[tagof[c]] = NoCb
        /\ last.frame.tag = tagof[c]
        /\ last.frame.status \in {StatusNotFound, NoStatus}
        /\ last.route = "unexpected"
        /\ last.cbs = <<>>

\* C22: a request of the facade made while there is no LeapProtocol raises
\* BridgeDisconnectedError at once and writes nothing.  One that was sent
\* ends in one of four ways: it returns the response, and then the
\* response's status is in the 200 range; it raises BridgeResponseError, and
\* then a response arrived whose status is missing or outside that range; it
\* raises BridgeDisconnectedError, the session having been closed while it
\* waited; or it raises the timeout error, REQUEST_TIMEOUT having passed.
\* A response whose status is no success is never returned.
C22_RequestOutcome ==
    [][/\ (pc[UserTask] = "idle" /\ pc'[UserTask] # "idle" /\ ~leap_set)
          => (/\ pc'[UserTask] = "done"
              /\ outcome'[UserTask] = "disconnected"
              /\ sent' = sent
              /\ in_flight' = in_flight
              /\ next_tag' = next_tag)
       /\ (pc[UserTask] = "awaiting" /\ pc'[UserTask] = "done")
          => (/\ outcome'[UserTask] \in
                     {"response", "error_response", "disconnected", "timeout"}
              /\ outcome'[UserTask] = "response"
                     => (/\ fut[tagof[UserTask]] = "result"
                         /\ futval[tagof[UserTask]].StatusCode.code \in 200..299)
              /\ outcome'[UserTask] = "error_response"
                     => (/\ fut[tagof[UserTask]] = "result"
                         /\ futval[tagof[UserTask]].StatusCode.code \notin 200..299)
              /\ outcome'[UserTask] = "disconnected"
                     => (fut[tagof[UserTask]] = "exception" /\ writer_closed)
              /\ outcome'[UserTask] = "timeout" => timed_out[UserTask])]_vars

\* The bridge answered the request without a success status, and the call
\* has raised BridgeResponseError
C22_Witness ==
    /\ pc[UserTask] = "done"
    /\ outcome[UserTask] = "error_response"
    /\ fut[tagof[UserTask]] = "result"
    /\ tagof[UserTask] \notin Range(in_flight)

\* The last call of add_*_subscriber for the id, 0 when there was none
LastRegistered(table, id) ==
    LET made == {i \in 1..Len(registered) :
                    registered[i].table = table /\ registered[i].id = id}
    IN  IF made = {} THEN 0 ELSE CHOOSE i \in made : \A j \in made : j <= i

\* The callback the table holds for the id is the one registered last
HoldsLast(table, id) ==
    IF LastRegistered(table, id) = 0 THEN id \notin Keys[table]
    ELSE /\ id \in Keys[table]
         /\ (id \in raising) = registered[LastRegistered(table, id)].raises

\* C23: after any sequence of add_subscriber, add_button_subscriber and
\* add_occupancy_subscriber calls, each table holds for an id the callback
\* registered last for it and no other; an event calls, for each id it is
\* about, one callback at most, and the callback called is the one
\* registered last: the event raises out of run() exactly when that one
\* raises, so a callback that was replaced is not called.
C23_LastRegistrationWins ==
    /\ [](\A table \in {"device", "button", "occupancy"} :
             \A id \in Registrable[table] : HoldsLast(table, id))
    /\ [][(Reading /\ Route(St, Head(buffer)) = "subscription")
          => (/\ \A i, j \in 1..Len(called') :
                     (/\ called'[i].table = called'[j].table
                      /\ called'[i].id = called'[j].id) => i = j
              /\ \A i \in 1..Len(called') :
                     /\ LastRegistered(called'[i].table, called'[i].id) # 0
                     /\ registered[LastRegistered(called'[i].table,
                                                  called'[i].id)].raises
                            = (i = Len(called') /\ run_pc' = "raised"))]_vars

\* A button's callback that raises was replaced by one that returns, and an
\* event of the button has called a callback without an exception
C23_Witness ==
    /\ Len(registered) >= 2
    /\ registered[1] = [table |-> "button", id |-> "b1", raises |-> TRUE]
    /\ registered[2] = [table |-> "button", id |-> "b1", raises |-> FALSE]
    /\ LastRegistered("button", "b1") = 2
    /\ last.route = "subscription"
    /\ called = <<CalledBack("button", "b1", Pressed)>>
    /\ run_pc = "running"

C26_IsOn ==
    /\ [](\A d \in DeviceIds :
             devices[d].present
             => /\ IsOn(devices[d]) = (\/ devices[d].current_state > 0
                                       \/ devices[d].fan_speed \notin {"None", "Off"})
                /\ (/\ devices[d].current_state \in {NoLevel, 0}
                    /\ devices[d].fan_speed \in {"None", "Off"})
                   => ~IsOn(devices[d]))
    /\ [][(/\ Event("ZoneStatus")
           /\ Head(buffer).tag = NoTag
           /\ GetDeviceByZoneId(devices, Head(buffer).body.id) # NoId)
          => IsOn(devices'[GetDeviceByZoneId(devices, Head(buffer).body.id)])
                = (\/ Head(buffer).body.level > 0
                   \/ /\ Head(buffer).body.level = NoLevel
                      /\ devices[GetDeviceByZoneId(devices, Head(buffer).body.id)]
                             .current_state > 0
                   \/ Head(buffer).body.fan_speed \notin {"None", "Off"})]_vars

\* A light at level 0 with no fan speed, which is off, and a device whose
\* level is unknown with its fan at Medium, which is on
C26_Witness ==
    \E d, e \in DeviceIds :
        /\ devices[d].present
        /\ devices[d].current_state = 0
        /\ devices[d].fan_speed = "None"
        /\ ~IsOn(devices[d])
        /\ devices[e].present
        /\ devices[e].current_state \in {NoLevel, 0}
        /\ devices[e].fan_speed = "Medium"
        /\ IsOn(devices[e])

\* ---------------------------------------------------------------- C27
\* The digits of a field of the string, as a number
RECURSIVE Value(_)
Value(digits) ==
    IF digits = <<>> THEN 0
    ELSE 10 * Value(SubSeq(digits, 1, Len(digits) - 1))
         + (CHOOSE n \in 0..9 : Digit(n) = digits[Len(digits)])

\* The positions of the colons of a string
Colons(str) == {i \in 1..Len(str) : str[i] = ":"}

\* The fields HH, MM and SS of a string with two colons
Fields(str) ==
    LET a == CHOOSE i \in Colons(str) : \A j \in Colons(str) : i <= j
        b == CHOOSE i \in Colons(str) : \A j \in Colons(str) : i >= j
    IN  <<SubSeq(str, 1, a - 1), SubSeq(str, a + 1, b - 1),
          SubSeq(str, b + 1, Len(str))>>

\* 3600 * HH + 60 * MM + SS seconds, as days and seconds
Encoded(str) ==
    LET HH == Value(Fields(str)[1])
        MM == Value(Fields(str)[2])
        SS == Value(Fields(str)[3])
    IN  [days |-> HH \div 24, seconds |-> 3600 * (HH % 24) + 60 * MM + SS]

WellFormed(str) ==
    /\ Cardinality(Colons(str)) = 2
    /\ \A i \in 1..3 :
          /\ Len(Fields(str)[i]) >= 2
          /\ \A k \in 1..Len(Fields(str)[i]) :
                \E n \in 0..9 : Fields(str)[i][k] = Digit(n)
    /\ Value(Fields(str)[2]) < 60
    /\ Value(Fields(str)[3]) < 60

\* C27: for every non-negative duration D, _format_duration(D) is a string
\* HH:MM:SS of fields of two digits or more, with MM and SS below 60, and
\* 3600*HH + 60*MM + SS is D truncated to whole seconds.
C27_FormatDuration ==
    urls # <<>> =>
        /\ WellFormed(urls[1].FadeTime)
        /\ Encoded(urls[1].FadeTime) = FlooredExactly(facade.fade_time)

\* C27 for the durations below 2^33 seconds, whose total_seconds() floors
\* to their whole seconds
C27_FormatDurationBelow ==
    urls # <<>> /\ ~AtLeast(facade.fade_time, Pow2Seconds(33)) =>
        /\ WellFormed(urls[1].FadeTime)
        /\ Encoded(urls[1].FadeTime) = FlooredExactly(facade.fade_time)

\* ---------------------------------------------------------------- C28
\* The monitor task has ended: _monitor returned or raised
MonitorOver(at) == at \in {"done", "failed"}

\* C28: the monitor task ends only when it was cancelled, by connect() or by
\* close(): no frame from the bridge, error of a handler or failure of a
\* request during a session ends it.
C28_OnlyCancellationEnds ==
    [][(~MonitorOver(mon_pc) /\ MonitorOver(mon_pc')) => mon_cancel]_vars

\* ---------------------------------------------------------------- C29
\* The event loop has nothing left to run: every task and callback that a
\* step of the program scheduled has run
Settled == LoopIdle /\ ready = <<>>

\* C29: when the login task of a connection has failed (a request of the
\* login timed out or was answered with an error status, or a load step
\* raised), the session does not stay connected without its topology: once
\* the event loop has run what the failure scheduled, the connection is
\* closed and the monitor has left the session, to connect and log in again.
C29_FailedLoginTornDown ==
    (pc[LoginTask] = "failed" /\ Settled) => (mon_pc # "session" /\ writer_closed)

\* ---------------------------------------------------------------- C30
\* C30: a connection attempt that does not complete is abandoned when
\* CONNECT_TIMEOUT has passed and is made again after RECONNECT_DELAY: the
\* monitor does not wait in the connector for ever.
C30_ConnectTimesOut == (mon_pc = "connecting") ~> (mon_pc # "connecting")

\* ---------------------------------------------------------------- C31
\* C31: _login_completed is a new, unresolved future at the start of every
\* connection of the monitor, and only the login of that connection resolves
\* it: a resolved future is never that of an earlier connection.
C31_FreshLoginCompleted ==
    /\ [][session' # session => login_completed' = "pending"]_vars
    /\ [](login_completed = "result" /\ mon_pc = "session"
            => outcome[LoginTask] = "finished")

\* ---------------------------------------------------------------- C32
\* The positions in the login of the SubscribeRequest for button b
ButtonSubscriptions(b) ==
    {i \in 1..Len(urls) :
        urls[i].path = "/button/{}/status/event" /\ urls[i].id = b}

\* C32: a Caseta login that has come to its end has issued one
\* SubscribeRequest /button/{id}/status/event for every button of
\* self.buttons, whatever the bridge answered to the subscriptions of the
\* other buttons.
C32_EveryButtonSubscribed ==
    (/\ mon_pc = "session"
     /\ product = "caseta"
     /\ outcome[LoginTask] = "finished")
    => \A b \in ButtonIds :
           buttons[b] # NoId => Cardinality(ButtonSubscriptions(b)) = 1

\* ---------------------------------------------------------------- C33
\* C33: on RA3/QSX, after any number of logins there is one occupancy group
\* for each area with occupancy sensors, and its list of sensors holds each
\* sensor of the area exactly once.
C33_SensorsOnce ==
    (/\ mon_pc = "session"
     /\ product = "ra3"
     /\ outcome[LoginTask] = "finished")
    => (/\ occupancy_groups["a1"] # NoId
        /\ \A x \in Range(ListedSensors) :
               Cardinality({i \in 1..Len(sensors["a1"]) : sensors["a1"][i] = x}) = 1
        /\ Range(sensors["a1"]) = Range(ListedSensors))

\* ---------------------------------------------------------------- C34
\* An RA3 login has come to its end on the connection that is up
Ra3LoggedIn ==
    /\ mon_pc = "session"
    /\ product = "ra3"
    /\ outcome[LoginTask] = "finished"

\* The keypad has the button in a button group of its entry of self.devices
HasButton(keypad) == devices[keypad].present /\ devices[keypad].button # Buttonless

\* C34: the indexes button -> keypad and LED -> keypad are rebuilt on each
\* login: after a login they hold the entries of the buttons and LEDs the
\* bridge listed during that login, and none left from a connection before.
C34_IndexesRebuilt ==
    Ra3LoggedIn =>
        /\ \A b \in ButtonIds :
               ra3_button_map[b] # NoId <=> (b = "kb1" /\ HasButton("k1"))
        /\ \A l \in LedIds :
               led_device_map[l] # NoId <=> (l = "l1" /\ HasButton("k1"))

\* ---------------------------------------------------------------- C35
\* C35: in every state, each entry of the button index and of the LED index
\* names a keypad that is in self.devices and has the button group and the
\* button of the entry, so that handling an event for the id finds them.
C35_IndexedParentPresent ==
    /\ \A b \in ButtonIds : ra3_button_map[b] # NoId => HasButton(ra3_button_map[b])
    /\ \A l \in LedIds : led_device_map[l] # NoId => HasButton(led_device_map[l])

\* ---------------------------------------------------------------- C36
\* The application calls the facade for a device that has no zone
CallsZoneless ==
    /\ pc[UserTask] = "idle"
    /\ pc'[UserTask] # "idle"
    /\ facade'.name \in {"set_value", "stop_cover", "raise_cover", "lower_cover"}
    /\ devices[facade'.dev].zone = NoId

\* C36: for a device with no zone, a call of set_value, raise_cover,
\* lower_cover or stop_cover writes no frame to the bridge and leaves the
\* cached state of the device as it is.
C36_ZonelessNoOp ==
    [][CallsZoneless => (sent' = sent /\ devices' = devices)]_vars

\* ---------------------------------------------------------------- C37
\* The state LeapProtocol.close() would leave if it were called now
ClosedAgain == LeapClose(St)

\* C37: close() is idempotent: called again right after a call of close(),
\* it leaves the state as the first call left it, and raises no error.
C37_CloseIdempotent ==
    [][Closing => (ClosedAgain' = St' /\ ClosedAgain'.close_result = "ok")]_vars

\* ---------------------------------------------------------------- C38
\* connect() called again.  The monitor it replaces, once cancelled, is a
\* task of its own; the task of the application that calls connect()
OldMonitor == -5
Caller == CHOOSE c \in Clients : TRUE

\* Task.cancel() of the monitor: its wakeup is queued, unless it is already
\* there; h is the handle the cancelled monitor resumes on
MonitorCancelled(queue, h) ==
    IF \E i \in 1..Len(queue) : queue[i] = WakeOf(RunTask)
    THEN [i \in 1..Len(queue) |-> IF queue[i] = WakeOf(RunTask) THEN h ELSE queue[i]]
    ELSE Append(queue, h)

\* connect(), the cancellations of smartbridge.py:89-99
Disconnected(s, h) ==
    CancelTask([CancelTask(s, LoginTask) EXCEPT !.ready = MonitorCancelled(@, h)],
               PingTask)

\* How awaiting _login_completed ends
LoginAwaited(future) ==
    CASE future = "result" -> "returned"
      [] future = "exception" -> "failed"
      [] future = "cancelled" -> "cancelled"
      [] OTHER -> "none"

\* Smartbridge.connect() while a monitor is running (smartbridge.py:86-111).
\* When leap.close() raises, connect() ends there, with the monitor cancelled.
Reconnect ==
    /\ LoopIdle
    /\ mon_pc \in {"connecting", "session", "backoff", "backoff_woken"}
    /\ pc[Caller] = "idle"
    /\ outcome[Caller] = "none"
    /\ IF leap_set /\ LeapClose(Disconnected(St, WakeOf(RunTask))).close_result # "ok"
       THEN /\ Commit(LeapClose(Disconnected(St, WakeOf(RunTask))))
            /\ mon_cancel' = TRUE
            /\ run_pc' = IF mon_pc = "session" /\ run_pc = "waiting" THEN "cancelled"
                         ELSE run_pc
            /\ outcome' = [outcome EXCEPT ![Caller] = "InvalidStateError"]
            /\ UNCHANGED <<mon_pc, leap_set, pc>>
       ELSE /\ Commit(IF leap_set THEN LeapClose(Disconnected(St, WakeOf(OldMonitor)))
                      ELSE Disconnected(St, WakeOf(OldMonitor)))
            /\ leap_set' = FALSE
            /\ mon_pc' = "connecting"
            /\ mon_cancel' = FALSE
            /\ run_pc' = "new"
            /\ pc' = [pc EXCEPT ![Caller] =
                         IF login_completed = "pending" THEN "connecting" ELSE "idle"]
            /\ outcome' = [outcome EXCEPT ![Caller] = LoginAwaited(login_completed)]
    /\ UNCHANGED <<cacheVars, streamVars, owner, kind, cb_of, tagof, next_tag,
                   unsolicited_subs, last, login_completed, login_step, session,
                   subscribers, timed_out>>

\* The monitor that connect() replaced resumes with its CancelledError: the
\* finally of _monitor_once, then the finally of _monitor, on the attributes
\* as they are by then (smartbridge.py:587-598, 553-554)
OldMonitorResume ==
    /\ LoopIdle
    /\ ready # <<>>
    /\ Head(ready) = WakeOf(OldMonitor)
    /\ Commit(IF leap_set THEN Teardown([St EXCEPT !.ready = Tail(ready)])
              ELSE [St EXCEPT !.ready = Tail(ready)])
    /\ leap_set' = (leap_set /\ TeardownRaises(St))
    /\ login_completed' =
           IF login_completed # "pending" THEN login_completed
           ELSE IF TeardownRaises(St) THEN "exception"
           ELSE "cancelled"
    /\ UNCHANGED <<cacheVars, streamVars, taskVars, unsolicited_subs, last, mon_pc,
                   mon_cancel, run_pc, login_step, session, subscribers, timed_out>>

\* The caller of connect() resumes once _login_completed is done
ConnectReturns ==
    /\ LoopIdle
    /\ pc[Caller] = "connecting"
    /\ login_completed # "pending"
    /\ pc' = [pc EXCEPT ![Caller] = "idle"]
    /\ outcome' = [outcome EXCEPT ![Caller] = LoginAwaited(login_completed)]
    /\ UNCHANGED <<cacheVars, bridgeVars, protoVars, futVars, streamVars, kind, cb_of,
                   tagof, owner, next_tag, unsolicited_subs, run_pc, ready, must_cancel,
                   last, close_result>>

NextReconnect ==
    \/ BridgeConnect
    \/ ConnectOk
    \/ ConnectFail
    \/ SessionEnded
    \/ BackoffTimer
    \/ MonitorResume
    \/ BridgeClose
    \/ Reconnect
    \/ OldMonitorResume
    \/ ConnectReturns
    \/ LoginStep
    \/ PingStep
    \/ CleanUp
    \/ BridgeAnswers
    \/ BridgeEof
    \/ WakeRun
    \/ RunFrame
    \/ RunWait

SpecReconnect == Init /\ [][NextReconnect]_vars

\* The monitor that connect() replaced has still to resume
Superseding == \E i \in 1..Len(ready) : ready[i] = WakeOf(OldMonitor)

\* C38: the teardown of the monitor that connect() replaced leaves the
\* login future, the protocol and the tasks of the new monitor alone; the
\* second connect() is never cancelled, and returns only once the login on
\* the new connection has finished.
C38_ReconnectLikeFirst ==
    /\ [][(Superseding /\ ~Superseding') =>
              (/\ login_completed' = login_completed
               /\ leap_set' = leap_set
               /\ must_cancel' = must_cancel)]_vars
    /\ [][(outcome[Caller] = "none" /\ outcome'[Caller] # "none") =>
              (/\ outcome'[Caller] # "cancelled"
               /\ outcome'[Caller] = "returned" =>
                      (~Superseding' /\ outcome'[LoginTask] = "finished"))]_vars

\* ---------------------------------------------------------------- C39
\* The bulk updates of the subscription to /zone/status: the statuses of
\* several zones, "zx" being a zone no device has
MultiZoneStatuses ==
    {Body("MultipleZoneStatus", NoId, NoLevel, "None", NoTilt, "None", es) :
        es \in {<<Body("ZoneStatus", "zx", 50, "None", NoTilt, "None", <<>>),
                  Body("ZoneStatus", "z9", 50, "None", NoTilt, "None", <<>>)>>,
                <<Body("ZoneStatus", "z9", 75, "None", 30, "None", <<>>)>>}}

ZoneUpdates ==
    \E t \in DOMAIN urls :
        /\ tagged_subs[t] # NoCb
        /\ urls[t].path = "/zone/status"
        /\ \E b \in MultiZoneStatuses :
               Sends(Message("dict", t, StatusOK, "ReadResponse", "MultipleZoneStatus", b))

\* The statuses of zones after a login, alone or in bulk
NextZones ==
    \/ BridgeConnect
    \/ ConnectOk
    \/ LoginTopology
    \/ PingStep
    \/ TopologyAnswers
    \/ AddDeviceSubscriber
    \/ BridgeReports
    \/ ZoneUpdates
    \/ SessionCrashed
    \/ CleanUp
    \/ WakeRun
    \/ RunFrame
    \/ RunWait

SpecZones == Init /\ [][NextZones]_vars

\* The statuses of zones in the event run() is about to hand to a handler
StatusesRead ==
    IF ~Reading \/ Route(St, Head(buffer)) \notin {"unsolicited", "subscription"}
    THEN <<>>
    ELSE IF Head(buffer).body.type = "ZoneStatus" THEN <<Head(buffer).body>>
    ELSE IF Head(buffer).body.type = "MultipleZoneStatus" THEN Head(buffer).body.entries
    ELSE <<>>

UnknownZoneRead ==
    \E i \in DOMAIN StatusesRead : GetDeviceByZoneId(devices, StatusesRead[i].id) = NoId

\* The devices once every status of a zone that a device has is applied
RECURSIVE KnownFrom(_, _, _)
KnownFrom(devs, statuses, i) ==
    IF i > Len(statuses) THEN devs
    ELSE IF GetDeviceByZoneId(devs, statuses[i].id) = NoId
    THEN KnownFrom(devs, statuses, i + 1)
    ELSE KnownFrom([devs EXCEPT ![GetDeviceByZoneId(devs, statuses[i].id)] =
                              ZoneUpdated(@, statuses[i])],
                   statuses, i + 1)

\* C39: an event with the status of a zone that no device has, alone or in
\* a bulk update, does not end run(); it changes the devices by the statuses
\* of the zones that a device has, and by nothing else.
C39_UnknownZoneIgnored ==
    [][(UnknownZoneRead /\ raising \cap subscribers = {}) =>
           (/\ run_pc' = "running"
            /\ devices' = KnownFrom(devices, StatusesRead, 1))]_vars

\* ---------------------------------------------------------------- C40
\* The bridge answers a Raise or a Lower with 201 Created and reports, in
\* the line after it, the level the cover is at: both lines are in the
\* reader when run() reads the first
CoverAnswersThenReports ==
    \E level \in {25, 50} :
        /\ LoopIdle
        /\ mon_pc = "session"
        /\ ~eof
        /\ ~writer_closed
        /\ facade.name \in {"raise_cover", "lower_cover"}
        /\ pc[UserTask] = "awaiting"
        /\ tagof[UserTask] \in sent
        /\ fut[tagof[UserTask]] = "pending"
        /\ ~Buffered(tagof[UserTask])
        /\ nframes' = nframes + 2
        /\ buffer' = buffer \o
               <<Message("dict", tagof[UserTask], StatusCreated, "CreateResponse",
                         "OneZoneStatus",
                         Body("ZoneStatus", devices[facade.dev].zone,
                              IF facade.name = "raise_cover" THEN 100 ELSE 0,
                              "None", NoTilt, "None", <<>>)),
                 Message("dict", NoTag, StatusOK, "ReadResponse", "OneZoneStatus",
                         Body("ZoneStatus", devices[facade.dev].zone, level,
                              "None", NoTilt, "None", <<>>))>>
        /\ run_pc' = Fed(run_pc)
        /\ ready' = FedReady(run_pc, ready)
        /\ UNCHANGED <<cacheVars, bridgeVars, protoVars, futVars, taskVars, sent, eof,
                       unsolicited_subs, must_cancel, last, close_result>>

\* raise_cover and lower_cover, their answers, and the reports after them
NextCover ==
    \/ BridgeConnect
    \/ ConnectOk
    \/ LoginTopology
    \/ PingStep
    \/ TopologyAnswers
    \/ RaiseCover
    \/ LowerCover
    \/ FacadeAnswers
    \/ CoverAnswersThenReports
    \/ FacadeStep
    \/ CleanUp
    \/ WakeRun
    \/ RunFrame
    \/ RunWait

\* The event loop runs every handle that is ready: run() reads the lines it
\* was fed, and the tasks that were woken resume
CoverScheduling ==
    /\ WF_vars(LoginTopology)
    /\ WF_vars(PingStep)
    /\ WF_vars(FacadeStep)
    /\ WF_vars(CleanUp)
    /\ WF_vars(WakeRun)
    /\ WF_vars(RunFrame)
    /\ WF_vars(RunWait)

SpecCover == Init /\ [][NextCover]_vars /\ CoverScheduling

\* run() is about to handle a report of level l for the zone of the cover,
\* the answer to the call handled and the caller not yet resumed
ReportedMeanwhile(l) ==
    /\ Reading
    /\ Head(buffer).tag = NoTag
    /\ Head(buffer).body.type = "ZoneStatus"
    /\ Head(buffer).body.level = l
    /\ facade.name \in {"raise_cover", "lower_cover"}
    /\ Head(buffer).body.id = devices[facade.dev].zone
    /\ pc[UserTask] = "awaiting"
    /\ fut[tagof[UserTask]] = "result"

\* C40: a level the bridge reports for the cover after its answer to a Raise
\* or a Lower and before the caller resumes is the level of the cover in the
\* cache once the call has returned.
C40_NewerLevelKept ==
    \A l \in {25, 50} :
        [](ReportedMeanwhile(l) =>
               [](pc[UserTask] = "done" => devices[facade.dev].current_state = l))

====
